---------------------------- MODULE Spec2Model ----------------------------
(***************************************************************************)
(* Model of the AI agent software team:                                    *)
(*   - the LangGraph workflow of AIAgentTeam (ai_agent_team.py):           *)
(*     planning_agent -> coding_agent -> testing_agent -> reviewing_agent  *)
(*     -> revision_decision -> (coding_agent | END);                       *)
(*   - the Build Verifier BuildTool.execute (tools/build.py);              *)
(*   - the Repair Loop BuildAndFixAgent.build_and_fix (tools/build.py);    *)
(*   - the Extractor and the Splitter (tools/utilities/code_cleaner.py),   *)
(*     the Assemblers (tools/generators) and ToolRegistry (registry.py),   *)
(*     each driven directly on inputs drawn from bounded sets.             *)
(* One behaviour drives one public entry point, chosen in Init (entry).    *)
(* Texts are sequences of tokens; the opaque generative backend and the    *)
(* native build tools are nondeterministic choices over small sets.        *)
(***************************************************************************)
EXTENDS Integers, Sequences, FiniteSets, TLC

VARIABLES
    entry,            \* the public entry point this run drives
    \* ---- AgentState and the graph position (ai_agent_team.py) ----
    node,             \* graph node about to run: "idle", the five agents, "END"
    requirement, plan, code, tests, review,
    iteration_count, needs_revision, final_output,
    coder_context,    \* the revision context the last coding prompt carried
    node_runs,        \* how many times each node has run
    final_writes,     \* how many times final_output has been written
    last_finalized,   \* whether the latest revision_decision took the finalize branch
    last_route,       \* what should_continue returned after the latest decision
    \* ---- ToolContext, the project on disk, BuildTool.execute (build.py) ----
    working_files,    \* context.working_files
    metadata,         \* context.metadata
    disk,             \* the project directory: its code, solution file, .py files
    bt,               \* the latest BuildTool.execute call and its outcome
    \* ---- BuildAndFixAgent.build_and_fix (build.py) ----
    rl,               \* the Repair Loop's frame: locals, position, counters
    \* ---- the materialization tools and the registry, each called directly ----
    cl,               \* the latest CodeCleanerTool.execute call (code_cleaner.py)
    sp,               \* the latest CodeSplitterTool.execute call (code_cleaner.py)
    gen,              \* the latest project generator call and the file system
    reg               \* ToolRegistry: the class attribute, the instances, the threads

wfVars == <<node, requirement, plan, code, tests, review, iteration_count,
            needs_revision, final_output, coder_context, node_runs, final_writes,
            last_finalized, last_route>>
ctxVars == <<working_files, metadata, disk>>
compVars == <<cl, sp, gen, reg>>
vars == <<entry, wfVars, ctxVars, bt, rl, compVars>>

---------------------------------------------------------------------------
(* Bounds of the model *)

\* Guard on the number of coding passes explored (the code's own cap is MaxIterations).
MaxPasses == 5
\* Largest max_iterations handed to BuildTool.execute directly.
MaxBudget == 2
\* Largest max_iterations configured for BuildAndFixAgent.
MaxN == 3
\* Number of direct BuildTool.execute calls made on one context.
MaxCalls == 1
\* Largest iteration counter handed to should_continue and revision_decision
\* when they are called directly.
MaxCounter == 4
\* Largest number of lines of a text handed to the Extractor.
MaxLines == 3
\* Number of consecutive Extractor calls, each on the output of the one before.
MaxCleanCalls == 2
\* Largest number of lines of a text handed to the Splitter.
MaxSplitLines == 4
\* The file-system operations of a generator call that may fail are its first
\* MaxFault.
MaxFault == 10
\* Number of threads that use the tool registry at once.
MaxThreads == 2

---------------------------------------------------------------------------
(* Token texts *)

EmptyText == <<>>
EmptyDict == [k \in {} |-> 0]

IsSpace(t) == t \in {" ", "\n"}

RECURSIVE LStrip(_)
LStrip(s) == IF s # <<>> /\ IsSpace(Head(s)) THEN LStrip(Tail(s)) ELSE s

RECURSIVE RStrip(_)
RStrip(s) == IF s # <<>> /\ IsSpace(s[Len(s)])
             THEN RStrip(SubSeq(s, 1, Len(s) - 1)) ELSE s

\* str.strip()
Strip(s) == RStrip(LStrip(s))

\* str.upper(), token by token
UpperTok(t) == CASE t = "needs_revision" -> "NEEDS_REVISION"
                 [] t = "Needs_Revision" -> "NEEDS_REVISION"
                 [] t = "approved" -> "APPROVED"
                 [] t = "x" -> "X"
                 [] OTHER -> t
Upper(s) == [i \in 1..Len(s) |-> UpperTok(s[i])]

\* str.startswith(p)
StartsWith(s, p) == Len(s) >= Len(p) /\ SubSeq(s, 1, Len(p)) = p

---------------------------------------------------------------------------
(* The workflow: AIAgentTeam (ai_agent_team.py) *)

Entries == {"run", "execute", "build_and_fix"}

Requirements == {<<"req1">>, <<"req2">>}
PlanTexts == {<<"plan1">>}
CodeTexts == {<<"codeA">>, <<"codeB">>}
TestTexts == {<<"testsA">>}
\* Replies of the reviewer: the marker in any case, with surrounding blanks,
\* followed by more text on its line, on a later line only, after a blank
\* line, absent, and no text.
ReviewTexts ==
    { <<"APPROVED", "\n", "x">>,
      <<"\n", "NEEDS_REVISION", "\n", "x">>,
      <<"NEEDS_REVISION", "\n", "x">>,
      <<" ", "needs_revision", "\n">>,
      <<"NEEDS_REVISION", "x">>,
      <<"x", "\n", "NEEDS_REVISION">>,
      <<>> }

Marker == <<"NEEDS_REVISION">>

\* The hard cap of the Decision stage and of its transition guard.
MaxIterations == 3

AgentNodes == {"planning_agent", "coding_agent", "testing_agent",
               "reviewing_agent", "revision_decision"}

Bump(r, n) == [r EXCEPT ![n] = @ + 1]

\* Mutant: the review is not stripped before the test.
NeedsRevisionFlag_NoStrip(rv) == StartsWith(Upper(rv), Marker)

\* review.strip().upper().startswith("NEEDS_REVISION")
NeedsRevisionFlag(rv) == StartsWith(Upper(Strip(rv)), Marker)

\* Mutant: the counter advanced by two.
NextIteration_ByTwo(ic) == ic + 2

\* iteration = state.get("iteration_count", 0) + 1
NextIteration(ic) == ic + 1

\* Mutant: the cap compared with > instead of >=.
DecisionFinalizes_StrictCap(nr, iteration) == ~nr \/ iteration > MaxIterations

\* The condition of revision_decision's finalize branch.
DecisionFinalizes(nr, iteration) == ~nr \/ iteration >= MaxIterations

\* Mutant: the status read after needs_revision was cleared.
FinalStatus_AfterClear(nr) == "approved"

\* "approved" if not needs_revision else "max_iterations_reached"
FinalStatus(nr) == IF ~nr THEN "approved" ELSE "max_iterations_reached"

\* Mutant: the guard consults the counter alone.
should_continue_CounterOnly(nr, ic) ==
    IF ic < MaxIterations THEN "revise" ELSE "complete"

\* Mutant: the cap compared with <= instead of <.
should_continue_InclusiveCap(nr, ic) ==
    IF nr /\ ic <= MaxIterations THEN "revise" ELSE "complete"

\* The conditional edge out of revision_decision.
should_continue(nr, ic) == IF nr /\ ic < MaxIterations THEN "revise" ELSE "complete"

\* Mutant: the 'complete' branch of the conditional edge leads back to Coding.
NextNode_LoopBack(n, route) ==
    CASE n = "planning_agent" -> "coding_agent"
      [] n = "coding_agent" -> "testing_agent"
      [] n = "testing_agent" -> "reviewing_agent"
      [] n = "reviewing_agent" -> "revision_decision"
      [] n = "revision_decision" -> "coding_agent"

\* Mutant: the feedback context carries the code alone, without the review.
RevisionContext_NoReview(rv, nr, c) ==
    IF rv # EmptyText /\ nr THEN [previous_code |-> c, feedback |-> EmptyText]
    ELSE EmptyDict

\* The context of the coding prompt (lines 136-139): the previous code and the
\* review when there is a review and needs_revision is set, else nothing.
RevisionContext(rv, nr, c) ==
    IF rv # EmptyText /\ nr THEN [previous_code |-> c, feedback |-> rv]
    ELSE EmptyDict

\* Mutant: the edge out of Coding leads to Reviewing.
NextNode_SkipTesting(n, route) ==
    CASE n = "planning_agent" -> "coding_agent"
      [] n = "coding_agent" -> "reviewing_agent"
      [] n = "testing_agent" -> "reviewing_agent"
      [] n = "reviewing_agent" -> "revision_decision"
      [] n = "revision_decision" ->
            IF route = "revise" THEN "coding_agent" ELSE "END"

\* The edges of _build_workflow.
NextNode(n, route) ==
    CASE n = "planning_agent" -> "coding_agent"
      [] n = "coding_agent" -> "testing_agent"
      [] n = "testing_agent" -> "reviewing_agent"
      [] n = "reviewing_agent" -> "revision_decision"
      [] n = "revision_decision" ->
            IF route = "revise" THEN "coding_agent" ELSE "END"

\* AIAgentTeam.run: the initial state handed to workflow.invoke.
run ==
    /\ entry = "run"
    /\ node = "idle"
    /\ \E r \in Requirements : requirement' = r
    /\ plan' = EmptyText
    /\ code' = EmptyText
    /\ tests' = EmptyText
    /\ review' = EmptyText
    /\ iteration_count' = 0
    /\ needs_revision' = FALSE
    /\ final_output' = EmptyDict
    /\ node' = "planning_agent"
    /\ UNCHANGED <<entry, compVars, coder_context, node_runs, final_writes, last_finalized,
                   last_route, ctxVars, bt, rl>>

planning_agent ==
    /\ node = "planning_agent"
    /\ \E t \in PlanTexts : plan' = t
    /\ node_runs' = Bump(node_runs, "planning_agent")
    /\ node' = NextNode(node, "none")
    /\ UNCHANGED <<entry, compVars, requirement, code, tests, review, iteration_count,
                   needs_revision, final_output, coder_context, final_writes,
                   last_finalized, last_route, ctxVars, bt, rl>>

coding_agent ==
    /\ node = "coding_agent"
    /\ node_runs["coding_agent"] < MaxPasses
    /\ coder_context' = RevisionContext(review, needs_revision, code)
    /\ \E t \in CodeTexts : code' = t
    /\ node_runs' = Bump(node_runs, "coding_agent")
    /\ node' = NextNode(node, "none")
    /\ UNCHANGED <<entry, compVars, requirement, plan, tests, review, iteration_count,
                   needs_revision, final_output, final_writes, last_finalized,
                   last_route, ctxVars, bt, rl>>

testing_agent ==
    /\ node = "testing_agent"
    /\ \E t \in TestTexts : tests' = t
    /\ node_runs' = Bump(node_runs, "testing_agent")
    /\ node' = NextNode(node, "none")
    /\ UNCHANGED <<entry, compVars, requirement, plan, code, review, iteration_count,
                   needs_revision, final_output, coder_context, final_writes,
                   last_finalized, last_route, ctxVars, bt, rl>>

reviewing_agent ==
    /\ node = "reviewing_agent"
    /\ \E t \in ReviewTexts :
          /\ review' = t
          /\ needs_revision' = NeedsRevisionFlag(t)
    /\ node_runs' = Bump(node_runs, "reviewing_agent")
    /\ node' = NextNode(node, "none")
    /\ UNCHANGED <<entry, compVars, requirement, plan, code, tests, iteration_count,
                   final_output, coder_context, final_writes, last_finalized,
                   last_route, ctxVars, bt, rl>>

\* revision_decision, followed by the conditional edge should_continue, which
\* the graph evaluates on the state the node returned.
revision_decision ==
    /\ node = "revision_decision"
    /\ LET iteration == NextIteration(iteration_count)
           finalize == DecisionFinalizes(needs_revision, iteration)
       IN /\ iteration_count' = iteration
          /\ last_finalized' = finalize
          /\ IF finalize
             THEN /\ final_output' =
                        [requirement |-> requirement, plan |-> plan,
                         code |-> code, tests |-> tests, review |-> review,
                         iterations |-> iteration,
                         status |-> FinalStatus(needs_revision)]
                  /\ needs_revision' = FALSE
                  /\ final_writes' = final_writes + 1
             ELSE UNCHANGED <<final_output, needs_revision, final_writes>>
    /\ last_route' = should_continue(needs_revision', iteration_count')
    /\ node' = NextNode(node, last_route')
    /\ node_runs' = Bump(node_runs, "revision_decision")
    /\ UNCHANGED <<entry, compVars, requirement, plan, code, tests, review,
                   coder_context, ctxVars, bt, rl>>

WorkflowNext ==
    \/ run
    \/ planning_agent
    \/ coding_agent
    \/ testing_agent
    \/ reviewing_agent
    \/ revision_decision

InitWorkflow ==
    /\ node = "idle"
    /\ requirement = EmptyText
    /\ plan = EmptyText
    /\ code = EmptyText
    /\ tests = EmptyText
    /\ review = EmptyText
    /\ iteration_count = 0
    /\ needs_revision = FALSE
    /\ final_output = EmptyDict
    /\ coder_context = EmptyDict
    /\ node_runs = [n \in AgentNodes |-> 0]
    /\ final_writes = 0
    /\ last_finalized = FALSE
    /\ last_route = "none"

\* should_continue(state) and revision_decision(state) called directly, on a
\* state whose needs_revision and iteration_count are any values.
GuardEntries == {"should_continue", "revision_decision"}

InitGuardCall ==
    /\ entry \in GuardEntries
    /\ node = IF entry = "revision_decision" THEN "revision_decision" ELSE "idle"
    /\ requirement = <<"req1">>
    /\ plan = <<"plan1">>
    /\ code = <<"codeA">>
    /\ tests = <<"testsA">>
    /\ review = <<"NEEDS_REVISION", "\n", "x">>
    /\ iteration_count \in 0..MaxCounter
    /\ needs_revision \in BOOLEAN
    /\ final_output = EmptyDict
    /\ coder_context = EmptyDict
    /\ node_runs = [n \in AgentNodes |-> 0]
    /\ final_writes = 0
    /\ last_finalized = FALSE
    /\ last_route = "none"

call_should_continue ==
    /\ entry = "should_continue"
    /\ last_route = "none"
    /\ last_route' = should_continue(needs_revision, iteration_count)
    /\ UNCHANGED <<entry, compVars, node, requirement, plan, code, tests, review,
                   iteration_count, needs_revision, final_output, coder_context,
                   node_runs, final_writes, last_finalized, ctxVars, bt, rl>>

call_revision_decision ==
    /\ entry = "revision_decision"
    /\ revision_decision

---------------------------------------------------------------------------
(* The Build Verifier: BuildTool (tools/build.py), ToolResult (tools/base.py) *)

Languages == {"csharp", "python", "other"}

\* What one subprocess.run of the native tool does: exit code 0, a non-zero
\* exit code, subprocess.TimeoutExpired, or FileNotFoundError (tool absent);
\* nerr is the number of diagnostics its output parses to.
\* One dotnet build:
DotnetRuns ==
    { [rc |-> "exit0", nerr |-> 0], [rc |-> "exit1", nerr |-> 0],
      [rc |-> "exit1", nerr |-> 1], [rc |-> "exit1", nerr |-> 3],
      [rc |-> "timeout", nerr |-> 0], [rc |-> "absent", nerr |-> 0] }
\* One py_compile of one file:
PyCompileRuns ==
    { [rc |-> "exit0", nerr |-> 0], [rc |-> "exit1", nerr |-> 1],
      [rc |-> "timeout", nerr |-> 0], [rc |-> "absent", nerr |-> 0] }

\* dict[key] = value
Put(d, key, value) ==
    [k \in DOMAIN d \cup {key} |-> IF k = key THEN value ELSE d[k]]

\* Optional values: None and a present value.
None == <<>>
Some(v) == <<v>>

\* ToolResult.ok(message, data)
ToolResultOk(message, data) ==
    [success |-> TRUE, message |-> message, data |-> Some(data), errors |-> <<>>]

\* ToolResult.fail(message): data stays None, errors defaults to [message]
ToolResultFail(message) ==
    [success |-> FALSE, message |-> message, data |-> None,
     errors |-> <<message>>]

\* What a call ends with: a returned ToolResult or a raised exception, and the
\* metadata mapping as the call left it.  attempts, all_errors and last_errors
\* record the attempts made and the diagnostics they produced.
Returned(result, meta, attempts, all_errors, last_errors) ==
    [raised |-> FALSE, exc |-> "none", result |-> result, meta |-> meta,
     attempts |-> attempts, all_errors |-> all_errors,
     last_errors |-> last_errors]

Raised(exc, meta, attempts, all_errors) ==
    [raised |-> TRUE, exc |-> exc, result |-> ToolResultFail("none"),
     meta |-> meta, attempts |-> attempts, all_errors |-> all_errors,
     last_errors |-> <<>>]

ExcOf(rc) == IF rc = "timeout" THEN "TimeoutExpired" ELSE "FileNotFoundError"

\* all_errors[-5:] if len(all_errors) > 5 else all_errors
Last5(es) == IF Len(es) > 5 THEN SubSeq(es, Len(es) - 4, Len(es)) ELSE es

\* _parse_csharp_errors on the output of attempt i: one dict per diagnostic.
ParseCsharpErrors(r, i) ==
    [k \in 1..r.nerr |->
        [file |-> "Program.cs", line |-> k, column |-> 1, severity |-> "error",
         code |-> "CS1002", message |-> <<"attempt", i>>]]

\* _parse_python_error for file f in attempt i.
ParsePythonError(f, i) ==
    [file |-> <<"module", f>>, line |-> 1, column |-> 0, severity |-> "error",
     code |-> "SYNTAX_ERROR", message |-> <<"attempt", i>>]

\* The attempts loop of _build_csharp from attempt i on (lines 85-115), then
\* the result (lines 117-144).
RECURSIVE CsharpAttempts(_, _, _, _, _, _)
CsharpAttempts(i, budget, runs, all_errors, last_errors, meta) ==
    IF i > budget
    THEN Returned([success |-> FALSE,
                   message |-> "Build failed",
                   data |-> Some([success |-> FALSE, iterations |-> budget,
                                  errors |-> all_errors,
                                  errors_for_llm |-> Last5(all_errors)]),
                   errors |-> <<"Build failed">>],
                  meta, budget, all_errors, last_errors)
    ELSE IF runs[i][1].rc \in {"timeout", "absent"}
    THEN Raised(ExcOf(runs[i][1].rc), meta, i, all_errors)
    ELSE IF runs[i][1].rc = "exit0"
    THEN Returned(ToolResultOk("Build successful",
                               [success |-> TRUE, iterations |-> i,
                                errors |-> <<>>, errors_for_llm |-> <<>>]),
                  meta, i, all_errors, <<>>)
    ELSE LET errors == ParseCsharpErrors(runs[i][1], i)
         IN CsharpAttempts(i + 1, budget, runs, all_errors \o errors, errors,
                IF i < budget
                THEN Put(Put(meta, "build_errors", errors),
                         "build_output", <<"output", i>>)
                ELSE meta)

\* BuildTool._build_csharp
build_csharp(meta, d, budget, runs) ==
    IF ~d.sln
    THEN Returned(ToolResultFail("No .sln file found"), meta, 0, <<>>, <<>>)
    ELSE CsharpAttempts(1, budget, runs, <<>>, <<>>, meta)

\* The syntax checks of one attempt: the first file whose check raises, if any.
FirstRaise(fileRcs) ==
    LET bad == {f \in 1..Len(fileRcs) : fileRcs[f].rc \in {"timeout", "absent"}}
    IN IF bad = {} THEN 0 ELSE CHOOSE f \in bad : \A g \in bad : f <= g

\* The errors list of one attempt: one diagnostic per file that failed its check.
RECURSIVE PyErrors(_, _, _)
PyErrors(fileRcs, f, i) ==
    IF f > Len(fileRcs) THEN <<>>
    ELSE (IF fileRcs[f].rc = "exit1" THEN <<ParsePythonError(f, i)>> ELSE <<>>)
         \o PyErrors(fileRcs, f + 1, i)

\* The attempts loop of _build_python from attempt i on (lines 180-208), then
\* the result (lines 210-232).  success is the local of line 166.
RECURSIVE PythonAttempts(_, _, _, _, _, _, _)
PythonAttempts(i, budget, runs, success, all_errors, last_errors, meta) ==
    IF i > budget
    THEN IF success
         THEN Returned(ToolResultOk("Python validation successful",
                                    [success |-> TRUE, iterations |-> 1,
                                     errors |-> <<>>, errors_for_llm |-> <<>>]),
                       meta, budget, all_errors, last_errors)
         ELSE \* ToolResult.fail() takes no data argument
              Raised("TypeError", meta, budget, all_errors)
    ELSE IF FirstRaise(runs[i]) # 0
    THEN Raised(ExcOf(runs[i][FirstRaise(runs[i])].rc), meta, i, all_errors)
    ELSE LET errors == PyErrors(runs[i], 1, i)
         IN IF errors = <<>>
            THEN Returned(ToolResultOk("Python validation successful",
                                       [success |-> TRUE, iterations |-> 1,
                                        errors |-> <<>>,
                                        errors_for_llm |-> <<>>]),
                          meta, i, all_errors, <<>>)
            ELSE PythonAttempts(i + 1, budget, runs, success,
                     all_errors \o errors, errors,
                     IF i < budget THEN Put(meta, "build_errors", errors)
                     ELSE meta)

\* BuildTool._build_python
build_python(meta, d, budget, runs) ==
    IF d.py_files = 0
    THEN Returned(ToolResultFail("No Python files found"), meta, 0, <<>>, <<>>)
    ELSE PythonAttempts(1, budget, runs, TRUE, <<>>, <<>>, meta)

\* BuildTool.execute
execute(meta, d, language, budget, runs) ==
    IF language = "csharp" THEN build_csharp(meta, d, budget, runs)
    ELSE IF language = "python" THEN build_python(meta, d, budget, runs)
    ELSE Returned(ToolResultFail("Unsupported language"), meta, 0, <<>>, <<>>)

\* What the native tool may do over the attempts of one call: per attempt,
\* one run of dotnet build, or one run of py_compile per .py file.
RECURSIVE SeqsOf(_, _)
SeqsOf(S, n) ==
    IF n = 0 THEN {<<>>}
    ELSE {Append(q, x) : q \in SeqsOf(S, n - 1), x \in S}

ToolRuns(language, d, budget) ==
    IF language = "csharp" THEN SeqsOf(SeqsOf(DotnetRuns, 1), budget)
    ELSE IF language = "python"
    THEN SeqsOf(SeqsOf(PyCompileRuns, d.py_files), budget)
    ELSE {<<>>}

\* Project directories: with or without a solution file, holding 0..2 .py files.
PyFileCounts == {0, 1, 2}
OriginalCode == <<"codeA">>
Disks == [code : {OriginalCode}, sln : BOOLEAN, py_files : PyFileCounts]

NoCall == [calls |-> 0, language |-> "none", budget |-> 0, runs |-> <<>>,
           out |-> Returned(ToolResultFail("none"), EmptyDict, 0, <<>>, <<>>)]

\* One BuildTool.execute call recorded in bt, with the runs of the native tool
\* that were made.
Called(language, budget, truns, out) ==
    [calls |-> bt.calls + 1, language |-> language, budget |-> budget,
     runs |-> SubSeq(truns, 1, out.attempts), out |-> out]

\* A caller invokes BuildTool.execute on the context.
BuildTool_execute ==
    /\ entry = "execute"
    /\ bt.calls < MaxCalls
    /\ \E language \in Languages, budget \in 1..MaxBudget :
         \E truns \in ToolRuns(language, disk, budget) :
            LET out == execute(metadata, disk, language, budget, truns)
            IN /\ metadata' = out.meta
               /\ bt' = Called(language, budget, truns, out)
    /\ UNCHANGED <<entry, compVars, wfVars, working_files, disk, rl>>

---------------------------------------------------------------------------
(* The Repair Loop: BuildAndFixAgent (tools/build.py) *)

\* The three-backquote delimiter of a fenced block.
Fence == "<fence>"
WordToks == {"python", "csharp", "codeA", "codeB"}

\* Replies of the fixer: plain changed code, fenced code with a language tag,
\* fenced code equal to the original, nothing, the original with blanks around
\* it, fences without a line break, and an empty fenced block.
Responses ==
    { <<"codeB">>,
      <<Fence, "python", "\n", "codeB", "\n", Fence>>,
      <<Fence, "\n", "codeA", Fence>>,
      <<>>,
      <<" ", "codeA", "\n">>,
      <<Fence, "codeB", Fence>>,
      <<"x", Fence, "csharp", "\n", " ", Fence>> }

\* Index of the first token at or after i that is not a word token.
RECURSIVE SkipWord(_, _)
SkipWord(s, i) == IF i <= Len(s) /\ s[i] \in WordToks THEN SkipWord(s, i + 1) ELSE i

\* Whether the pattern of line 452 (fence, optional \w+, line break, lazy
\* body, fence) matches with its opening fence at i.
FenceMatchAt(s, i) ==
    /\ s[i] = Fence
    /\ LET k == SkipWord(s, i + 1)
       IN /\ k <= Len(s)
          /\ s[k] = "\n"
          /\ \E j \in (k + 1)..Len(s) : s[j] = Fence

\* re.findall(...)[0]: the group of the leftmost match, closed lazily.
FirstFenced(s) ==
    LET i == CHOOSE a \in 1..Len(s) :
                 FenceMatchAt(s, a) /\ \A b \in 1..(a - 1) : ~FenceMatchAt(s, b)
        k == SkipWord(s, i + 1)
        j == CHOOSE a \in (k + 1)..Len(s) :
                 s[a] = Fence /\ \A b \in (k + 1)..(a - 1) : s[b] # Fence
    IN SubSeq(s, k + 1, j - 1)

\* _ask_llm_to_fix: the code taken from the reply (lines 446-456).
ask_llm_to_fix(response) ==
    IF \E i \in 1..Len(response) : FenceMatchAt(response, i)
    THEN Strip(FirstFenced(response))
    ELSE Strip(response)

NoFrame ==
    [pc |-> "idle", N |-> 0, language |-> "none", code |-> EmptyText,
     current_code |-> EmptyText, iteration |-> 0, errors_for_llm |-> <<>>,
     fixed_code |-> EmptyText, ret |-> None, exc |-> "none",
     builds |-> <<>>, fix_calls |-> 0, fix_rounds |-> 0, round_calls |-> 0]

\* How one Build Verifier invocation ended, as the loop sees it.
BuildKind(out) ==
    IF out.raised THEN "raised"
    ELSE IF out.result.success THEN "ok"
    ELSE IF out.result.data = None THEN "fail_nodata"
    ELSE "fail"

\* Mutant: the last iteration is not recognised, the loop goes on to a fix.
MaxIterationsReached_Late(iteration, N) == iteration > N

\* Mutant: the loop gives up one iteration early.
MaxIterationsReached_Early(iteration, N) == iteration + 1 >= N

\* if iteration >= self.max_iterations (line 401)
MaxIterationsReached(iteration, N) == iteration >= N

\* Mutant: only an empty reply is retried.
NeedsRetry_EmptyOnly(fixed_code, current_code) == fixed_code = EmptyText

\* if not fixed_code or fixed_code == current_code (line 409)
NeedsRetry(fixed_code, current_code) ==
    fixed_code = EmptyText \/ fixed_code = current_code

\* A caller invokes build_and_fix(context, code, language) on an agent
\* configured with max_iterations = N; the project was assembled from code.
build_and_fix ==
    /\ entry = "build_and_fix"
    /\ rl.pc = "idle"
    /\ \E N \in 0..MaxN, language \in Languages :
          rl' = [NoFrame EXCEPT !.pc = IF N >= 1 THEN "build" ELSE "raised",
                                !.exc = IF N >= 1 THEN "none"
                                        ELSE "UnboundLocalError",
                                !.N = N, !.language = language,
                                !.code = disk.code,
                                !.current_code = disk.code,
                                !.iteration = 1]
    /\ UNCHANGED <<entry, compVars, wfVars, ctxVars, bt>>

\* The head of one iteration (lines 378-403): save the working file on a
\* revision, build with a budget of 1, return on success or on the last
\* iteration, else go on to the fix.
loop_build ==
    /\ rl.pc = "build"
    /\ working_files' = IF rl.iteration > 1
                        THEN Put(working_files, "current_code", rl.current_code)
                        ELSE working_files
    /\ \E truns \in ToolRuns(rl.language, disk, 1) :
          LET out == execute(metadata, disk, rl.language, 1, truns)
              kind == BuildKind(out)
              seen == [iteration |-> rl.iteration, kind |-> kind,
                       built |-> disk.code, current |-> rl.current_code]
              base == [rl EXCEPT !.builds = Append(@, seen)]
          IN /\ metadata' = out.meta
             /\ bt' = Called(rl.language, 1, truns, out)
             /\ rl' =
                  CASE kind = "raised" ->
                         [base EXCEPT !.pc = "raised", !.exc = out.exc]
                    [] kind = "ok" ->
                         [base EXCEPT !.pc = "returned",
                                      !.ret = Some(<<TRUE, rl.current_code,
                                                     out.result>>)]
                    [] kind = "fail_nodata" ->
                         \* build_result.data is None: .get raises
                         [base EXCEPT !.pc = "raised", !.exc = "AttributeError"]
                    [] kind = "fail" /\ MaxIterationsReached(rl.iteration, rl.N) ->
                         [base EXCEPT !.pc = "returned",
                                      !.errors_for_llm =
                                          out.result.data[1].errors_for_llm,
                                      !.ret = Some(<<FALSE, rl.current_code,
                                                     out.result>>)]
                    [] OTHER ->
                         [base EXCEPT !.pc = "fix",
                                      !.errors_for_llm =
                                          out.result.data[1].errors_for_llm]
    /\ UNCHANGED <<entry, compVars, wfVars, disk>>

\* The first fix call of an iteration (lines 405-409).
loop_fix ==
    /\ rl.pc = "fix"
    /\ \E response \in Responses :
          LET fixed_code == ask_llm_to_fix(response)
          IN rl' = IF NeedsRetry(fixed_code, rl.current_code)
                   THEN [rl EXCEPT !.pc = "retry", !.fixed_code = fixed_code,
                                   !.fix_calls = @ + 1, !.fix_rounds = @ + 1,
                                   !.round_calls = 1]
                   ELSE [rl EXCEPT !.pc = "build", !.fixed_code = fixed_code,
                                   !.current_code = fixed_code,
                                   !.iteration = @ + 1,
                                   !.fix_calls = @ + 1, !.fix_rounds = @ + 1,
                                   !.round_calls = 1]
    /\ UNCHANGED <<entry, compVars, wfVars, ctxVars, bt>>

\* The retry with the stronger prompt, then current_code = fixed_code
\* (lines 410-418).
loop_retry ==
    /\ rl.pc = "retry"
    /\ \E response \in Responses :
          LET fixed_code == ask_llm_to_fix(response)
          IN rl' = [rl EXCEPT !.pc = "build", !.fixed_code = fixed_code,
                              !.current_code = fixed_code,
                              !.iteration = @ + 1,
                              !.fix_calls = @ + 1, !.round_calls = 2]
    /\ UNCHANGED <<entry, compVars, wfVars, ctxVars, bt>>

RepairNext ==
    \/ build_and_fix
    \/ loop_build
    \/ loop_fix
    \/ loop_retry

---------------------------------------------------------------------------
(* The Extractor: CodeCleanerTool (tools/utilities/code_cleaner.py) *)

\* Code texts are sequences of tokens.  A token stands for the characters it
\* spells; Fence stands for three backquotes and Tick for one.
Tick == "<tick>"

\* Tokens matched by [a-z]* (and by \w) as a whole.
LowerToks == {"csharp"}
\* Tokens matched by [\w\.]+ as a whole.
NameToks == LowerToks \cup {"Notes"}
\* Tokens that spell a marker accepted by the pattern of lines 93 and 158
\* (case-sensitive 'File:' or 'Filename:' after the two slashes).
CleanerMarkers == {"// File: A.cs", "// File: B.cs", "// File: ATests.cs"}

AtLineStart(s, i) == i = 1 \/ s[i - 1] = "\n"

\* Index of the first token at or after i that is outside S (Len(s) + 1 if none).
RECURSIVE SkipIn(_, _, _)
SkipIn(s, i, S) == IF i <= Len(s) /\ s[i] \in S THEN SkipIn(s, i + 1, S) ELSE i

Blanks == {" ", "\n"}

\* Where a match that ends with \s*$ (MULTILINE) stops, when the \s* starts
\* at m: the end of the text if only blanks follow, else the last line break
\* of the blank run; 0 if the line goes on after the blanks.
TrailEnd(s, m) ==
    LET e == SkipIn(s, m, Blanks)
        nl == {p \in m..(e - 1) : s[p] = "\n"}
    IN IF e > Len(s) THEN e
       ELSE IF nl = {} THEN 0
       ELSE CHOOSE p \in nl : \A q \in nl : q <= p

\* re.sub(r'<fence>[a-z]*\n', '\n', code)
RECURSIVE SubFenceLine(_, _)
SubFenceLine(s, i) ==
    IF i > Len(s) THEN <<>>
    ELSE LET j == SkipIn(s, i + 1, LowerToks)
         IN IF s[i] = Fence /\ j <= Len(s) /\ s[j] = "\n"
            THEN <<"\n">> \o SubFenceLine(s, j + 1)
            ELSE <<s[i]>> \o SubFenceLine(s, i + 1)

\* re.sub(r'<fence>\n?', '', code)
RECURSIVE SubFence(_, _)
SubFence(s, i) ==
    IF i > Len(s) THEN <<>>
    ELSE IF s[i] = Fence
         THEN IF i < Len(s) /\ s[i + 1] = "\n"
              THEN SubFence(s, i + 2)
              ELSE SubFence(s, i + 1)
         ELSE <<s[i]>> \o SubFence(s, i + 1)

\* re.sub(r'^##+\s+', '', code, flags=re.MULTILINE)
RECURSIVE SubHeaderPrefix(_, _)
SubHeaderPrefix(s, i) ==
    IF i > Len(s) THEN <<>>
    ELSE LET j == SkipIn(s, i + 1, Blanks)
         IN IF AtLineStart(s, i) /\ s[i] = "##" /\ j > i + 1
            THEN SubHeaderPrefix(s, j)
            ELSE <<s[i]>> \o SubHeaderPrefix(s, i + 1)

\* re.sub(r'^##\s*[\w\.]+\s*$', '', code, flags=re.MULTILINE) (the optional
\* backquotes around the name left out: no text here has them)
RECURSIVE SubHeaderName(_, _)
SubHeaderName(s, i) ==
    IF i > Len(s) THEN <<>>
    ELSE LET k == SkipIn(s, i + 1, Blanks)
             m == SkipIn(s, k, NameToks)
             e == TrailEnd(s, m)
         IN IF AtLineStart(s, i) /\ s[i] = "##" /\ m > k /\ e > 0
            THEN SubHeaderName(s, e)
            ELSE <<s[i]>> \o SubHeaderName(s, i + 1)

\* re.sub(r'^//\s*(Filename|File):\s*[\w\.]+\s*$', '', code, flags=re.MULTILINE)
RECURSIVE SubFileMarker(_, _)
SubFileMarker(s, i) ==
    IF i > Len(s) THEN <<>>
    ELSE LET m == SkipIn(s, i + 1, NameToks)
             e == TrailEnd(s, m)
         IN IF AtLineStart(s, i) /\ s[i] \in CleanerMarkers /\ e > 0
            THEN SubFileMarker(s, e)
            ELSE <<s[i]>> \o SubFileMarker(s, i + 1)

\* re.sub(r"^Here's.*?\n+", '', ...) and re.sub(r"^Below is.*?\n+", '', ...),
\* for the token intro that spells the line's opening words.
RECURSIVE SubIntro(_, _, _)
SubIntro(s, i, intro) ==
    IF i > Len(s) THEN <<>>
    ELSE LET nls == {p \in i..Len(s) : s[p] = "\n"}
             n1 == IF nls = {} THEN 0
                   ELSE CHOOSE p \in nls : \A q \in nls : p <= q
         IN IF AtLineStart(s, i) /\ s[i] = intro /\ n1 > 0
            THEN SubIntro(s, SkipIn(s, n1, {"\n"}), intro)
            ELSE <<s[i]>> \o SubIntro(s, i + 1, intro)

\* The artifact removal that _clean_code (lines 85-97) and _clean_csharp
\* (lines 150-162) both start with.
RemoveArtifacts(s) ==
    LET a == SubFenceLine(s, 1)
        b == SubFence(a, 1)
        c == SubHeaderPrefix(b, 1)
        d == SubHeaderName(c, 1)
        e == SubFileMarker(d, 1)
        f == SubIntro(e, 1, "Here's the code:")
    IN SubIntro(f, 1, "Below is the code:")

\* code.split('\n'): the lines of a text, at least one.
RECURSIVE SplitLines(_)
SplitLines(s) ==
    LET nls == {p \in 1..Len(s) : s[p] = "\n"}
    IN IF nls = {} THEN <<s>>
       ELSE LET p == CHOOSE a \in nls : \A b \in nls : a <= b
            IN <<SubSeq(s, 1, p - 1)>> \o SplitLines(SubSeq(s, p + 1, Len(s)))

\* '\n'.join(lines)
RECURSIVE JoinLines(_)
JoinLines(ls) ==
    IF ls = <<>> THEN <<>>
    ELSE IF Len(ls) = 1 THEN ls[1]
    ELSE ls[1] \o <<"\n">> \o JoinLines(Tail(ls))

\* Tokens whose spelling starts with 'using ' or 'namespace '.
KeptOpeners == {"using System;", "using NUnit.Framework;"}
\* Tokens whose spelling starts with '# ', '- ' or '* ' (lines 113-118); no
\* token here spells an emoji, 'As a ' or 'I will' (lines 121-126).
SkippedOpeners == {"- done", "# File: a.py", "# File: b.py"}

\* The filter of lines 104-129 applied to one line: whether it is kept.
LineKept(line) ==
    LET stripped == Strip(line)
    IN IF stripped = <<>> THEN TRUE
       ELSE IF Head(stripped) \in KeptOpeners THEN TRUE
       ELSE IF Head(stripped) = "using" /\ Len(stripped) > 1 /\ stripped[2] = " "
            THEN TRUE
       ELSE IF Head(stripped) \in SkippedOpeners THEN FALSE
       ELSE IF Head(stripped) = "##" /\ Len(stripped) > 1 /\ stripped[2] = " "
            THEN FALSE
       ELSE TRUE

FilterLines(s) ==
    JoinLines(SelectSeq(SplitLines(s), LineKept))

\* line.strip(Tick)
RECURSIVE StripTicks(_)
StripTicks(line) ==
    IF line # <<>> /\ Head(line) = Tick THEN StripTicks(Tail(line))
    ELSE IF line # <<>> /\ line[Len(line)] = Tick
         THEN StripTicks(SubSeq(line, 1, Len(line) - 1))
    ELSE line

\* _clean_python (lines 226-237)
CleanPythonLine(line) ==
    LET stripped == Strip(line)
    IN IF stripped # <<>> /\ Head(stripped) = Tick /\ stripped[Len(stripped)] = Tick
       THEN Strip(StripTicks(line))
       ELSE line

clean_python(s) ==
    LET ls == SplitLines(s)
    IN JoinLines([i \in 1..Len(ls) |-> CleanPythonLine(ls[i])])

\* re.sub(r'\n\s*\n\s*\n', '\n\n', code): a run of blanks holding three line
\* breaks or more keeps two, from its first line break to its last.
RECURSIVE CollapseBlankLines(_, _)
CollapseBlankLines(s, i) ==
    IF i > Len(s) THEN <<>>
    ELSE LET e == SkipIn(s, i, Blanks)
             nls == {p \in i..(e - 1) : s[p] = "\n"}
             last == CHOOSE p \in nls : \A q \in nls : q <= p
         IN IF s[i] = "\n" /\ Cardinality(nls) >= 3
            THEN <<"\n", "\n">> \o CollapseBlankLines(s, last + 1)
            ELSE <<s[i]>> \o CollapseBlankLines(s, i + 1)

Contains(s, t) == \E i \in 1..Len(s) : s[i] = t

\* _ensure_using_statements (lines 175-224).  Line 181 asks whether the
\* string 'using ' is one of the first five lines.  Of the type names looked
\* for, the texts here spell 'Console.' and '[Test]' only.
ensure_using_statements(s) ==
    LET ls == SplitLines(s)
        has_usings == \E i \in 1..Len(ls) : i <= 5 /\ ls[i] = <<"using", " ">>
        needed_usings ==
            (IF Contains(s, "Console.Write(1);") THEN <<"using System;">> ELSE <<>>)
            \o (IF Contains(s, "[Test]")
                THEN <<"using NUnit.Framework;">> ELSE <<>>)
        using_block ==
            JoinLines([i \in 1..Len(needed_usings) |-> <<needed_usings[i]>>])
            \o <<"\n">>
    IN IF s = <<>> \/ has_usings \/ needed_usings = <<>> THEN s
       ELSE using_block \o <<"\n">> \o s

\* _clean_csharp (lines 147-173)
clean_csharp(s) ==
    ensure_using_statements(Strip(CollapseBlankLines(RemoveArtifacts(s), 1)))

\* _clean_code (lines 82-145)
clean_code(s, language) ==
    LET filtered == FilterLines(RemoveArtifacts(s))
        specific == IF language = "csharp" THEN clean_csharp(filtered)
                    ELSE IF language = "python" THEN clean_python(filtered)
                    ELSE filtered
    IN Strip(CollapseBlankLines(specific, 1))

\* _detect_language (lines 60-80): of the indicators, the texts here spell
\* 'using System;', 'def ' and 'class ' only.
detect_language(s) ==
    IF Contains(s, "using System;") THEN "csharp"
    ELSE IF /\ Contains(s, "def f():")
            /\ \E i \in 1..Len(s) : s[i] \in {"class A", "class B", "class ATests"}
         THEN "python"
    ELSE "unknown"

\* CodeCleanerTool.execute (lines 30-58); code is None or Some(text).
cleaner_execute(c, language) ==
    IF c = None THEN ToolResultFail("No code provided to clean")
    ELSE LET lang == IF language = "auto" THEN detect_language(c[1])
                     ELSE language
         IN ToolResultOk("Code cleaned successfully",
                         [cleaned_code |-> clean_code(c[1], lang),
                          language |-> lang])

\* The lines the cleaned texts are made of: a blank line, fences with and
\* without a language tag, a markdown header, a file marker, an introductory
\* sentence, a list item, code that uses Console, an import, a line wrapped in
\* backquotes.
CleanerLines ==
    { <<>>, <<Fence, "csharp">>, <<Fence>>, <<"##", " ", "Notes">>,
      <<"// File: A.cs">>, <<"Here's the code:">>, <<"- done">>,
      <<"Console.Write(1);">>, <<"using System;">>, <<Tick, "int x;", Tick>> }

\* The texts of one to n lines from L.
RECURSIVE TextsOf(_, _)
TextsOf(L, n) ==
    IF n = 0 THEN {}
    ELSE {JoinLines(ls) : ls \in SeqsOf(L, n)} \cup TextsOf(L, n - 1)

CleanerHints == {"csharp", "python", "auto"}

NoClean == [calls |-> 0, language |-> "none", code |-> None, outs |-> <<>>]

\* One CodeCleanerTool.execute call: the first on a text of the bounded set
\* (or on None), the next on the text the call before returned.
CodeCleanerTool_execute ==
    /\ entry = "clean"
    /\ cl.calls < MaxCleanCalls
    /\ cl.calls > 0 => cl.outs[cl.calls].success
    /\ \E c \in IF cl.calls = 0
                THEN {None} \cup {Some(t) : t \in TextsOf(CleanerLines, MaxLines)}
                ELSE {Some(cl.outs[cl.calls].data[1].cleaned_code)},
          h \in IF cl.calls = 0 THEN CleanerHints ELSE {cl.language} :
          cl' = [calls |-> cl.calls + 1, language |-> h,
                 code |-> IF cl.calls = 0 THEN c ELSE cl.code,
                 outs |-> Append(cl.outs, cleaner_execute(c, h))]
    /\ UNCHANGED <<entry, wfVars, ctxVars, bt, rl, sp, gen, reg>>

---------------------------------------------------------------------------
(* The Splitter: CodeSplitterTool (tools/utilities/code_cleaner.py) *)

\* A dict of files in insertion order: a sequence of [name, content] records
\* with distinct names.  files[name] = content:
DictPut(files, name, content) ==
    IF \E i \in 1..Len(files) : files[i].name = name
    THEN [i \in 1..Len(files) |->
             IF files[i].name = name THEN [name |-> name, content |-> content]
             ELSE files[i]]
    ELSE Append(files, [name |-> name, content |-> content])

\* Tokens that spell a marker the pattern of line 311 accepts, tokens that
\* spell one the pattern of line 384 accepts, and the file name each declares.
CsMarkers == {"// File: A.cs", "// File: B.cs", "// File: ATests.cs"}
PyMarkers == {"# File: a.py", "# File: b.py", "#File: a.py", "#File: test_a.py"}
MarkerName(t) ==
    CASE t = "// File: A.cs" -> "A.cs"
      [] t = "// File: B.cs" -> "B.cs"
      [] t = "// File: ATests.cs" -> "ATests.cs"
      [] t = "# File: a.py" -> "a.py"
      [] t = "# File: b.py" -> "b.py"
      [] t = "#File: a.py" -> "a.py"
      [] t = "#File: test_a.py" -> "test_a.py"

\* Tokens the class pattern of line 326 matches, and the file named after the
\* class it captures (class_name followed by '.cs').
ClassToks == {"class A", "class B", "class ATests"}
ClassFile(t) ==
    CASE t = "class A" -> "A.cs"
      [] t = "class B" -> "B.cs"
      [] t = "class ATests" -> "ATests.cs"

\* match.end() of a marker match that starts at i: the marker must be followed
\* by \s*\n, which ends at the last line break of the blank run after it; 0 if
\* that run holds no line break (the pattern does not match at i).
MarkerEnd(s, i) ==
    LET e == SkipIn(s, i + 1, Blanks)
        nl == {p \in (i + 1)..(e - 1) : s[p] = "\n"}
    IN IF nl = {} THEN 0
       ELSE (CHOOSE p \in nl : \A q \in nl : q <= p) + 1

\* list(re.finditer(file_pattern, code, re.IGNORECASE)): the start of each match.
RECURSIVE MarkerMatches(_, _, _)
MarkerMatches(s, i, M) ==
    IF i > Len(s) THEN <<>>
    ELSE IF s[i] \in M /\ MarkerEnd(s, i) > 0
         THEN <<i>> \o MarkerMatches(s, MarkerEnd(s, i), M)
         ELSE MarkerMatches(s, i + 1, M)

\* The loop of lines 316-322 (and 388-392) from match k on.
RECURSIVE SplitAtMarkers(_, _, _, _)
SplitAtMarkers(s, matches, k, files) ==
    IF k > Len(matches) THEN files
    ELSE LET filename == MarkerName(s[matches[k]])
             start == MarkerEnd(s, matches[k])
             end == IF k + 1 <= Len(matches) THEN matches[k + 1] - 1 ELSE Len(s)
             content == Strip(SubSeq(s, start, end))
         IN SplitAtMarkers(s, matches, k + 1, DictPut(files, filename, content))

\* list(re.finditer(class_pattern, code)): the start of each match.
RECURSIVE ClassMatches(_, _)
ClassMatches(s, i) ==
    IF i > Len(s) THEN <<>>
    ELSE IF s[i] \in ClassToks THEN <<i>> \o ClassMatches(s, i + 1)
         ELSE ClassMatches(s, i + 1)

\* The brace scan of lines 335-351 from token j on: the index of the last
\* token of the class, the end of the text if the scan never closes.
RECURSIVE ClassEnd(_, _, _, _)
ClassEnd(s, j, brace_count, started) ==
    IF j > Len(s) THEN Len(s)
    ELSE LET c == IF s[j] = "{" THEN brace_count + 1
                  ELSE IF s[j] = "}" THEN brace_count - 1
                  ELSE brace_count
             st == started \/ s[j] = "{"
         IN IF st /\ c = 0 THEN j ELSE ClassEnd(s, j + 1, c, st)

\* The loop of lines 330-363 from match k on; every branch of lines 356-361
\* names the file after the class.
RECURSIVE SplitAtClasses(_, _, _, _)
SplitAtClasses(s, class_matches, k, files) ==
    IF k > Len(class_matches) THEN files
    ELSE LET start == class_matches[k]
             end == ClassEnd(s, start, 0, FALSE)
             content == Strip(SubSeq(s, start, end))
             filename == ClassFile(s[start])
         IN SplitAtClasses(s, class_matches, k + 1,
                           DictPut(files, filename, content))

\* is_test_code (lines 305-308): of the texts looked for, the tokens here
\* spell '[Test]', 'NUnit' and 'Tests'.
TestToks == {"[Test]", "using NUnit.Framework;", "class ATests",
             "// File: ATests.cs"}
is_test_code(s) == \E i \in 1..Len(s) : s[i] \in TestToks

\* _split_csharp (lines 300-377).  With no class in the text the pattern of
\* line 368 cannot match, so test code goes to UnitTests.cs.
split_csharp(s) ==
    LET matches == MarkerMatches(s, 1, CsMarkers)
        class_matches == ClassMatches(s, 1)
    IN IF matches # <<>> THEN SplitAtMarkers(s, matches, 1, <<>>)
       ELSE IF class_matches # <<>>
            THEN SplitAtClasses(s, class_matches, 1, <<>>)
       ELSE IF is_test_code(s)
            THEN <<[name |-> "UnitTests.cs", content |-> s]>>
       ELSE <<[name |-> "Program.cs", content |-> s]>>

\* _split_python (lines 379-397)
split_python(s) ==
    LET matches == MarkerMatches(s, 1, PyMarkers)
    IN IF matches # <<>> THEN SplitAtMarkers(s, matches, 1, <<>>)
       ELSE <<[name |-> "main.py", content |-> s]>>

\* 'main' + _get_extension(language) (lines 296, 399-408)
MainFile(language) ==
    CASE language = "csharp" -> "main.cs"
      [] language = "python" -> "main.py"
      [] language = "javascript" -> "main.js"
      [] language = "java" -> "main.java"
      [] language = "typescript" -> "main.ts"
      [] OTHER -> "main.txt"

\* _split_code (lines 286-298)
split_code(s, language) ==
    IF language = "csharp" THEN split_csharp(s)
    ELSE IF language = "python" THEN split_python(s)
    ELSE <<[name |-> MainFile(language), content |-> s]>>

\* CodeSplitterTool.execute (lines 256-284); c is None or Some(text).
splitter_execute(c, language) ==
    IF c = None THEN ToolResultFail("No code provided to split")
    ELSE LET lang == IF language = "auto" THEN detect_language(c[1])
                     ELSE language
         IN ToolResultOk("Code split into files",
                         [files |-> split_code(c[1], lang), language |-> lang])

\* The lines the split texts are made of.  C#: file markers, a statement, a
\* class that opens, a whole class, a closing brace, a test class.  Python:
\* file markers, a statement, a blank line.
CsSplitLines ==
    { <<"// File: A.cs">>, <<"// File: B.cs">>, <<"int x;">>,
      <<"class A", "{">>, <<"class B", "{", "}">>, <<"}">>,
      <<"class ATests", "{", "}">> }
PySplitLines ==
    { <<"# File: a.py">>, <<"# File: b.py">>, <<"int x;">>, <<>> }

\* Lines that put braces before and after a class declaration.
BraceLines == { <<"class A">>, <<"{">>, <<"}">>, <<"int x;">> }

SplitterInputs ==
    {[code |-> Some(t), language |-> "csharp"] :
        t \in TextsOf(CsSplitLines, MaxSplitLines)
              \cup TextsOf(BraceLines, MaxSplitLines)}
    \cup {[code |-> Some(t), language |-> h] :
             t \in TextsOf(PySplitLines, MaxSplitLines), h \in {"python", "auto"}}
    \cup {[code |-> None, language |-> "auto"]}

NoSplit == [called |-> FALSE, code |-> None, language |-> "none",
            out |-> ToolResultFail("none")]

CodeSplitterTool_execute ==
    /\ entry = "split"
    /\ ~sp.called
    /\ \E in \in SplitterInputs :
          sp' = [called |-> TRUE, code |-> in.code, language |-> in.language,
                 out |-> splitter_execute(in.code, in.language)]
    /\ UNCHANGED <<entry, wfVars, ctxVars, bt, rl, cl, gen, reg>>

---------------------------------------------------------------------------
(* The Assemblers: the project generators (tools/generators) *)

\* A path is the sequence of its components.  The file system holds the
\* directories made and, per path written, the content the latest write left.
EmptyFs == [files |-> <<>>, dirs |-> {}]

\* One file-system operation of a generator: os.makedirs(path, exist_ok=True)
\* or _write_file(path, content).
MkDir(path) == [kind |-> "mkdir", name |-> path, content |-> <<>>]
WriteFile(path, content) == [kind |-> "write", name |-> path, content |-> content]

\* Mutant: the first operation starts from an emptied project directory.
RECURSIVE ApplyOps_CleanDir(_, _, _)
ApplyOps_CleanDir(fs, ops, n) ==
    IF n = 0 THEN fs
    ELSE LET f == IF n = 1 THEN EmptyFs ELSE ApplyOps_CleanDir(fs, ops, n - 1)
             o == ops[n]
         IN IF o.kind = "mkdir"
            THEN [f EXCEPT !.dirs = @ \cup {o.name}]
            ELSE [f EXCEPT !.files = DictPut(@, o.name, o.content),
                           !.dirs = @ \cup {SubSeq(o.name, 1, Len(o.name) - 1)}]

\* The file system after the first n operations of ops.
RECURSIVE ApplyOps(_, _, _)
ApplyOps(fs, ops, n) ==
    IF n = 0 THEN fs
    ELSE LET f == ApplyOps(fs, ops, n - 1)
             o == ops[n]
         IN IF o.kind = "mkdir"
            THEN [f EXCEPT !.dirs = @ \cup {o.name}]
            ELSE [f EXCEPT !.files = DictPut(@, o.name, o.content),
                           !.dirs = @ \cup {SubSeq(o.name, 1, Len(o.name) - 1)}]

\* created_files: the paths of the writes, in order.
RECURSIVE CreatedFiles(_)
CreatedFiles(ops) ==
    IF ops = <<>> THEN <<>>
    ELSE (IF Head(ops).kind = "write" THEN <<Head(ops).name>> ELSE <<>>)
         \o CreatedFiles(Tail(ops))

\* ToolResult.ok(message, data, files_created) and ToolResult.fail(message).
GenOk(message, data, files_created) ==
    [success |-> TRUE, message |-> message, data |-> Some(data),
     files_created |-> files_created, errors |-> <<>>]
GenFail(message) ==
    [success |-> FALSE, message |-> message, data |-> None,
     files_created |-> <<>>, errors |-> <<message>>]

\* How the body of a try block ends: with a value, or with an exception of
\* class exc whose str() is text; done are the file-system operations it
\* completed and fs is the file system it leaves.
BodyReturns(result, done, fs) ==
    [raised |-> FALSE, exc |-> "none", text |-> "none", result |-> result,
     done |-> done, fs |-> fs]
BodyRaises(exc, text, done, fs) ==
    [raised |-> TRUE, exc |-> exc, text |-> text, result |-> GenFail(<<>>),
     done |-> done, fs |-> fs]

\* Mutant: the handler catches OSError only.
CatchException_OSErrorOnly(body, prefix) ==
    IF body.raised /\ body.exc = "OSError"
    THEN BodyReturns(GenFail(<<prefix, body.text>>), body.done, body.fs)
    ELSE body

\* except Exception as e: return ToolResult.fail(f"<prefix>: {str(e)}")
CatchException(body, prefix) ==
    IF body.raised
    THEN BodyReturns(GenFail(<<prefix, body.text>>), body.done, body.fs)
    ELSE body

\* The operations run until the one numbered fault raises OSError (0: none
\* does); what was done before it stays done.
RunOps(fs, ops, fault, result) ==
    IF fault \in 1..Len(ops)
    THEN BodyRaises("OSError", "disk error", SubSeq(ops, 1, fault - 1),
                    ApplyOps(fs, ops, fault - 1))
    ELSE BodyReturns(result, ops, ApplyOps(fs, ops, Len(ops)))

\* os.path.basename(os.path.normpath(None)) and os.path.join(None, name)
\* raise TypeError with this text.
NoneDirText == "expected str, bytes or os.PathLike object, not NoneType"

\* Names derived from the project name: f"{project_name}.csproj",
\* f"{project_name}.Tests", f"{project_name}.Tests.csproj", f"{project_name}.sln".
CsprojName(n) == CASE n = "App" -> "App.csproj" [] n = "Calc" -> "Calc.csproj"
TestsDirName(n) == CASE n = "App" -> "App.Tests" [] n = "Calc" -> "Calc.Tests"
TestCsprojName(n) ==
    CASE n = "App" -> "App.Tests.csproj" [] n = "Calc" -> "Calc.Tests.csproj"
SlnName(n) == CASE n = "App" -> "App.sln" [] n = "Calc" -> "Calc.sln"

\* CSharpProjectGeneratorTool._get_folder_name (lines 154-184) on the project
\* directories used here.
cs_get_folder_name(project_dir) == CASE project_dir = "out/App" -> "App"

\* 'Test' in filename or 'Tests' in filename (line 85)
IsTestFileName(n) == n \in {"ATests.cs", "UnitTests.cs"}

\* test_files.update(d)
RECURSIVE DictUpdate(_, _)
DictUpdate(files, d) ==
    IF d = <<>> THEN files
    ELSE DictUpdate(DictPut(files, Head(d).name, Head(d).content), Tail(d))

\* A text or None is truthy when it is a non-empty text.
Truthy(c) == c # None /\ c[1] # <<>>

\* The code after the cleaning of lines 63-71 (62-71 for Python): replaced by
\* the cleaned text when the cleaner is called and succeeds.
CleanedArg(c, language, always) ==
    IF always \/ Truthy(c)
    THEN LET r == cleaner_execute(c, language)
         IN IF r.success THEN Some(r.data[1].cleaned_code) ELSE c
    ELSE c

\* data['files'] of the split of lines 78-93, no files when it is skipped.
SplitArg(c, language) ==
    IF Truthy(c)
    THEN LET r == splitter_execute(c, language)
         IN IF r.success THEN r.data[1].files ELSE <<>>
    ELSE <<>>

WriteAll(dir, files) ==
    [i \in 1..Len(files) |-> WriteFile(Append(dir, files[i].name), files[i].content)]

\* The reference the test manifest holds (line 231).
ProjectReference_TestsDir(project_name) ==
    <<"<ProjectReference>", "..", TestsDirName(project_name),
      TestCsprojName(project_name)>>

ProjectReference(project_name) ==
    <<"<ProjectReference>", "..", project_name, CsprojName(project_name)>>

\* files and test_files of lines 73-93: the files split from the code, those
\* with a test name moved to the test files, then the files split from the
\* test code.
cs_files(c) ==
    SelectSeq(SplitArg(CleanedArg(c, "csharp", TRUE), "csharp"),
              LAMBDA f : ~IsTestFileName(f.name))
cs_test_files(c, t) ==
    DictUpdate(SelectSeq(SplitArg(CleanedArg(c, "csharp", TRUE), "csharp"),
                         LAMBDA f : IsTestFileName(f.name)),
               SplitArg(CleanedArg(t, "csharp", FALSE), "csharp"))

\* The file-system operations of lines 95-139, in order.  The GUIDs of the
\* solution file are left out of its content.
CsOps(project_dir, project_name, target_framework, files, test_files) ==
    LET main_dir == <<project_dir, project_name>>
        test_dir == <<project_dir, TestsDirName(project_name)>>
    IN << MkDir(main_dir), MkDir(test_dir),
          WriteFile(Append(main_dir, CsprojName(project_name)),
                    <<"<Project>", target_framework>>),
          WriteFile(Append(test_dir, TestCsprojName(project_name)),
                    <<"<Project>", target_framework>>
                    \o ProjectReference(project_name)),
          WriteFile(<<project_dir, SlnName(project_name)>>,
                    <<"<Solution>", project_name>>) >>
       \o WriteAll(main_dir, files)
       \o WriteAll(test_dir, test_files)
       \o << WriteFile(<<project_dir, ".gitignore">>, <<"<gitignore>">>),
             WriteFile(<<project_dir, "README.md">>, <<"<readme>", project_name>>) >>

\* The try block of CSharpProjectGeneratorTool.execute (lines 56-149), given
\* the files and test_files that lines 62-93 make of the code and test code.
\* project_dir and project_name are None or Some(value).
csharp_generate(project_dir, files, test_files, project_name, target_framework, fs, fault) ==
    IF project_dir = None
    THEN BodyRaises("TypeError", NoneDirText, <<>>, fs)
    ELSE
    LET name == IF project_name = None THEN cs_get_folder_name(project_dir[1])
                ELSE project_name[1]
        ops == CsOps(project_dir[1], name, target_framework, files, test_files)
    IN RunOps(fs, ops, fault,
              GenOk(<<"C# project created successfully", name>>,
                    [project_name |-> name,
                     main_dir |-> <<project_dir[1], name>>,
                     test_dir |-> <<project_dir[1], TestsDirName(name)>>],
                    CreatedFiles(ops)))

\* PythonProjectGeneratorTool._get_folder_name (lines 159-189) on the project
\* directories used here: the folder name in lower case.
py_get_folder_name(project_dir) == CASE project_dir = "out/App" -> "app"

\* f"test_{filename}" unless the name starts with test_ (lines 115-116)
TestPyName(n) ==
    CASE n = "main.py" -> "test_main.py"
      [] n = "a.py" -> "test_a.py"
      [] n = "b.py" -> "test_b.py"
      [] OTHER -> n

\* files of lines 62-81 and, made the same way of the test code, test_files
\* of lines 68-86.
py_files(c) == SplitArg(CleanedArg(c, "python", FALSE), "python")

\* The file-system operations of lines 88-144, in order.
PyOps(project_dir, project_name, files, test_files, use_poetry) ==
    LET package_dir == <<project_dir, project_name>>
        test_dir == <<project_dir, "tests">>
    IN << MkDir(package_dir), MkDir(test_dir),
          WriteFile(Append(package_dir, "__init__.py"),
                    <<"<package>", project_name>>),
          WriteFile(Append(test_dir, "__init__.py"), <<"<tests package>">>) >>
       \o WriteAll(package_dir, files)
       \o [i \in 1..Len(test_files) |->
              WriteFile(Append(test_dir, TestPyName(test_files[i].name)),
                        test_files[i].content)]
       \o << WriteFile(<<project_dir, "requirements.txt">>, <<"<requirements>">>),
             IF use_poetry
             THEN WriteFile(<<project_dir, "pyproject.toml">>,
                            <<"<pyproject>", project_name>>)
             ELSE WriteFile(<<project_dir, "setup.py">>,
                            <<"<setup>", project_name>>),
             WriteFile(<<project_dir, ".gitignore">>, <<"<gitignore>">>),
             WriteFile(<<project_dir, "README.md">>, <<"<readme>", project_name>>) >>

\* The try block of PythonProjectGeneratorTool.execute (lines 55-154), given
\* the files and test_files that lines 62-86 make of the code and test code.
python_generate(project_dir, files, test_files, project_name, use_poetry, fs, fault) ==
    IF project_dir = None
    THEN BodyRaises("TypeError", NoneDirText, <<>>, fs)
    ELSE
    LET name == IF project_name = None THEN py_get_folder_name(project_dir[1])
                ELSE project_name[1]
        ops == PyOps(project_dir[1], name, files, test_files, use_poetry)
    IN RunOps(fs, ops, fault,
              GenOk(<<"Python project created successfully", name>>,
                    [project_name |-> name,
                     main_dir |-> <<project_dir[1], name>>,
                     test_dir |-> <<project_dir[1], "tests">>],
                    CreatedFiles(ops)))

\* The inputs of the generator calls.  A missing project directory is the
\* input error; the directory may hold files of an earlier run.
OldFs ==
    [files |-> << [name |-> <<"out/App", "README.md">>, content |-> <<"old">>],
                  [name |-> <<"out/App", "keep.txt">>, content |-> <<"old">>] >>,
     dirs |-> {<<"out/App">>}]

CsGenCodes ==
    { None,
      Some(<<"class A", "{", "\n", "}">>),
      Some(<<"class A", "{", "\n", "Console.Write(1);", "\n", "}">>),
      Some(<<"class A", "{", "}", "\n", "class ATests", "{", "}">>),
      Some(<<"int x;">>) }
CsGenTests ==
    { None, Some(<<>>),
      Some(<<"class ATests", "{", "\n", "[Test]", "\n", "}">>),
      Some(<<"[Test]">>),
      Some(<<"class A", "{", "}">>) }
PyGenCodes ==
    { None, Some(<<"int x;">>),
      Some(<<"# File: a.py", "\n", "int x;", "\n", "# File: b.py", "\n", "int x;">>) }
PyGenTests ==
    { None, Some(<<>>), Some(<<"int x;">>),
      Some(<<"#File: a.py", "\n", "int x;", "\n",
             "#File: test_a.py", "\n", "int y;">>) }

\* files and test_files for each code and test code of the calls.
CsFiles == [c \in CsGenCodes |-> cs_files(c)]
CsTestFiles == [c \in CsGenCodes, t \in CsGenTests |-> cs_test_files(c, t)]
PyFiles == [c \in PyGenCodes \cup PyGenTests |-> py_files(c)]

NoGen ==
    [called |-> FALSE, tool |-> "none", project_dir |-> None,
     project_name |-> None, code |-> None, test_code |-> None, fs0 |-> EmptyFs,
     fault |-> 0, body |-> BodyReturns(GenFail(<<>>), <<>>, EmptyFs),
     out |-> BodyReturns(GenFail(<<>>), <<>>, EmptyFs)]

\* One CSharpProjectGeneratorTool.execute call.
CSharpProjectGeneratorTool_execute ==
    /\ entry = "generate"
    /\ ~gen.called
    /\ \E pd \in {None, Some("out/App")}, pn \in {None, Some("Calc")}, c \in CsGenCodes,
          t \in CsGenTests, fs \in {EmptyFs, OldFs}, fault \in 0..MaxFault :
          LET body == csharp_generate(pd, CsFiles[c], CsTestFiles[c, t], pn,
                                      "net10.0", fs, fault)
          IN gen' = [called |-> TRUE, tool |-> "csharp", project_dir |-> pd,
                     project_name |-> pn, code |-> c, test_code |-> t,
                     fs0 |-> fs, fault |-> fault, body |-> body,
                     out |-> CatchException(body, "Error generating C# project")]
    /\ UNCHANGED <<entry, wfVars, ctxVars, bt, rl, cl, sp, reg>>

\* One PythonProjectGeneratorTool.execute call.
PythonProjectGeneratorTool_execute ==
    /\ entry = "generate"
    /\ ~gen.called
    /\ \E pd \in {None, Some("out/App")}, pn \in {None, Some("calc")}, c \in PyGenCodes,
          t \in PyGenTests, use_poetry \in BOOLEAN, fs \in {EmptyFs, OldFs},
          fault \in 0..MaxFault :
          LET body == python_generate(pd, PyFiles[c], PyFiles[t], pn,
                                      use_poetry, fs, fault)
          IN gen' = [called |-> TRUE, tool |-> "python", project_dir |-> pd,
                     project_name |-> pn, code |-> c, test_code |-> t,
                     fs0 |-> fs, fault |-> fault, body |-> body,
                     out |-> CatchException(body,
                                            "Error generating Python project")]
    /\ UNCHANGED <<entry, wfVars, ctxVars, bt, rl, cl, sp, reg>>

---------------------------------------------------------------------------
(* The tool registry: ToolRegistry (tools/registry.py) *)

\* The threads that use the registry; thread t registers the tool named t.
Threads == 1..MaxThreads

\* An object made by super().__new__(cls): it has no _tools attribute until
\* line 26 sets one.
FreshObject == [has_tools |-> FALSE, names |-> {}]

\* The names of the tools of tools/ (the name each passes to Tool.__init__).
ToolNames == {"code_cleaner", "build_tool"}

\* How a call ends: with a returned ToolResult or with an exception of class exc.
CallReturns(result) == [raised |-> FALSE, exc |-> "none", result |-> result]
CallRaises(exc) == [raised |-> TRUE, exc |-> exc, result |-> ToolResultFail("none")]

\* What tool.execute(context, **kwargs) of a registered tool may end with.
ToolOutcomes ==
    { CallReturns(ToolResultOk("tool succeeded", "data")),
      CallReturns(ToolResultFail("tool failed")),
      CallRaises("RuntimeError") }

\* f"Tool not found: {name}"
NotFoundMessage(name) ==
    CASE name = "code_cleaner" -> "Tool not found: code_cleaner"
      [] name = "build_tool" -> "Tool not found: build_tool"

\* ToolRegistry.execute (lines 67-85) on a registry that holds the tools named
\* in registered; tool is what the tool's own execute ends with.
registry_execute(registered, name, tool) ==
    IF name \notin registered
    THEN CallReturns(ToolResultFail(NotFoundMessage(name)))
    ELSE tool

\* instance is cls._instance (0 for None, else the number of an object) and
\* objects the ToolRegistry objects made so far.  Per thread: pc is its place
\* in the code, call the call it is in (1: the ToolRegistry() before its
\* register, 2: the one before its lookup) and self the registry it was
\* returned.  completed holds the tools whose register call has returned,
\* obtained the registries returned to callers and lookups the outcome of
\* each get(name) made for a tool whose register call had returned.  exec is
\* the ToolRegistry.execute call made, with the tools registered at the time.
NoRegistry ==
    [instance |-> 0, objects |-> <<>>,
     pc |-> [t \in Threads |-> "idle"],
     call |-> [t \in Threads |-> 1],
     self |-> [t \in Threads |-> 0],
     completed |-> {}, obtained |-> {}, lookups |-> {},
     exec |-> [called |-> FALSE, registered |-> {}, name |-> "none",
               tool |-> CallReturns(ToolResultFail("none")),
               out |-> CallReturns(ToolResultFail("none"))]]

\* ToolRegistry() / get_registry(), line 24: if cls._instance is None
ToolRegistry_new_check ==
    \E t \in Threads :
    /\ entry = "registry"
    /\ reg.pc[t] = "idle"
    /\ reg' = [reg EXCEPT !.pc[t] = IF reg.instance = 0 THEN "create"
                                    ELSE "return"]
    /\ UNCHANGED <<entry, wfVars, ctxVars, bt, rl, cl, sp, gen>>

\* line 25: cls._instance = super().__new__(cls)
ToolRegistry_new_create ==
    \E t \in Threads :
    /\ entry = "registry"
    /\ reg.pc[t] = "create"
    /\ reg' = [reg EXCEPT !.pc[t] = "init",
                          !.objects = Append(@, FreshObject),
                          !.instance = Len(reg.objects) + 1]
    /\ UNCHANGED <<entry, wfVars, ctxVars, bt, rl, cl, sp, gen>>

\* line 26: cls._instance._tools = {}
ToolRegistry_new_init ==
    \E t \in Threads :
    /\ entry = "registry"
    /\ reg.pc[t] = "init"
    /\ reg' = [reg EXCEPT !.pc[t] = "return",
                          !.objects[reg.instance] =
                              [has_tools |-> TRUE, names |-> {}]]
    /\ UNCHANGED <<entry, wfVars, ctxVars, bt, rl, cl, sp, gen>>

\* line 27: return cls._instance
ToolRegistry_new_return ==
    \E t \in Threads :
    /\ entry = "registry"
    /\ reg.pc[t] = "return"
    /\ reg' = [reg EXCEPT !.pc[t] = IF reg.call[t] = 1 THEN "register"
                                    ELSE "get",
                          !.self[t] = reg.instance,
                          !.obtained = @ \cup {reg.instance}]
    /\ UNCHANGED <<entry, wfVars, ctxVars, bt, rl, cl, sp, gen>>

\* register (lines 34-41): self._tools[tool.name] = tool; AttributeError when
\* self has no _tools yet.
ToolRegistry_register ==
    \E t \in Threads :
    /\ entry = "registry"
    /\ reg.pc[t] = "register"
    /\ IF reg.objects[reg.self[t]].has_tools
       THEN reg' = [reg EXCEPT !.pc[t] = "idle",
                               !.call[t] = 2,
                               !.objects[reg.self[t]].names = @ \cup {t},
                               !.completed = @ \cup {t}]
       ELSE reg' = [reg EXCEPT !.pc[t] = "raised"]
    /\ UNCHANGED <<entry, wfVars, ctxVars, bt, rl, cl, sp, gen>>

\* get (lines 55-65): self._tools.get(name), for a tool whose register call has
\* returned.  A lookup that raises AttributeError finds nothing.
ToolRegistry_get ==
    \E t \in Threads :
    /\ entry = "registry"
    /\ reg.pc[t] = "get"
    /\ \E name \in reg.completed :
          LET o == reg.objects[reg.self[t]]
          IN reg' = [reg EXCEPT
                        !.pc[t] = IF o.has_tools THEN "done" ELSE "raised",
                        !.lookups = @ \cup
                            {[by |-> t, name |-> name,
                              found |-> o.has_tools /\ name \in o.names]}]
    /\ UNCHANGED <<entry, wfVars, ctxVars, bt, rl, cl, sp, gen>>
\* One ToolRegistry.execute call on a registry filled at startup.
ToolRegistry_execute ==
    /\ entry = "dispatch"
    /\ ~reg.exec.called
    /\ \E registered \in SUBSET ToolNames, name \in ToolNames,
          tool \in ToolOutcomes :
          reg' = [reg EXCEPT !.exec =
                     [called |-> TRUE, registered |-> registered, name |-> name,
                      tool |-> tool,
                      out |-> registry_execute(registered, name, tool)]]
    /\ UNCHANGED <<entry, wfVars, ctxVars, bt, rl, cl, sp, gen>>

---------------------------------------------------------------------------
(* The specifications *)

InitComponents ==
    /\ cl = NoClean
    /\ sp = NoSplit
    /\ gen = NoGen
    /\ reg = NoRegistry

Init ==
    /\ entry \in Entries
    /\ InitWorkflow
    /\ working_files = EmptyDict
    /\ metadata = EmptyDict
    /\ disk \in Disks
    /\ bt = NoCall
    /\ rl = NoFrame
    /\ InitComponents

Next ==
    \/ WorkflowNext
    \/ BuildTool_execute
    \/ RepairNext

Spec == Init /\ [][Next]_vars

\* The workflow alone, where every generate call returns and every stage runs
\* to its end: a stage that can run eventually runs.
InitRun == Init /\ entry = "run"

FairWorkflowSpec ==
    InitRun /\ [][WorkflowNext]_vars /\ WF_vars(WorkflowNext)

\* The functions and tools that are called directly, each on inputs drawn
\* from bounded sets.
ToolEntries == {"clean", "split", "generate", "registry", "dispatch"}

ComponentInit ==
    /\ \/ InitGuardCall
       \/ entry \in ToolEntries /\ InitWorkflow
    /\ working_files = EmptyDict
    /\ metadata = EmptyDict
    /\ disk = [code |-> OriginalCode, sln |-> FALSE, py_files |-> 0]
    /\ bt = NoCall
    /\ rl = NoFrame
    /\ InitComponents

ComponentNext ==
    \/ call_should_continue
    \/ call_revision_decision
    \/ CodeCleanerTool_execute
    \/ CodeSplitterTool_execute
    \/ CSharpProjectGeneratorTool_execute
    \/ PythonProjectGeneratorTool_execute
    \/ ToolRegistry_new_check
    \/ ToolRegistry_new_create
    \/ ToolRegistry_new_init
    \/ ToolRegistry_new_return
    \/ ToolRegistry_register
    \/ ToolRegistry_get
    \/ ToolRegistry_execute

ComponentSpec == ComponentInit /\ [][ComponentNext]_vars

---------------------------------------------------------------------------
(* Properties of the workflow *)

WorkflowDone == entry = "run" /\ node = "END"

FinalStatuses == {"approved", "max_iterations_reached"}

\* C1: every run of the workflow reaches END after at most 3 Coding passes
\* and at most 3 evaluations of the Decision stage, and ends with a
\* final-output record whose status is 'approved' or 'max_iterations_reached'.
C1_RunReachesDone ==
    /\ [](/\ node_runs["coding_agent"] <= MaxIterations
          /\ node_runs["revision_decision"] <= MaxIterations)
    /\ [](entry = "run" => <>(node = "END"))
    /\ [](node = "END" =>
             /\ "status" \in DOMAIN final_output
             /\ final_output.status \in FinalStatuses)

C1_Witness ==
    /\ WorkflowDone
    /\ node_runs["coding_agent"] = MaxIterations
    /\ node_runs["revision_decision"] = MaxIterations
    /\ final_output.status = "max_iterations_reached"

\* C2: once the Decision stage has run, should_continue answers 'complete'
\* exactly when that Decision evaluation finalized (wrote the final-output
\* record) and 'revise' exactly when it did not.
C2_GuardAgreesWithDecision ==
    node_runs["revision_decision"] > 0 =>
        /\ (last_route = "complete") <=> last_finalized
        /\ (last_route = "revise") <=> ~last_finalized

C2_Witness ==
    /\ node_runs["revision_decision"] = 2
    /\ last_route = "revise"
    /\ ~last_finalized
    /\ node = "coding_agent"

\* C10: when the Decision has finalized, the status is 'approved' exactly when
\* the review of the last pass did not ask for a revision, it is
\* 'max_iterations_reached' exactly when that review asked for one and the
\* iteration counter reached the cap of 3, and needs_revision is cleared.
C10_FinalStatus ==
    (node_runs["revision_decision"] > 0 /\ last_finalized) =>
        /\ final_output.status \in FinalStatuses
        /\ (final_output.status = "approved") <=> ~NeedsRevisionFlag(review)
        /\ (final_output.status = "max_iterations_reached") <=>
               (NeedsRevisionFlag(review) /\ iteration_count >= MaxIterations)
        /\ final_output.review = review
        /\ final_output.iterations = iteration_count
        /\ needs_revision = FALSE

C10_Witness ==
    /\ WorkflowDone
    /\ last_finalized
    /\ NeedsRevisionFlag(review)
    /\ final_output.status = "max_iterations_reached"
    /\ iteration_count = MaxIterations
    /\ needs_revision = FALSE

\* C11: for every needs_revision flag and every iteration counter,
\* should_continue returns 'revise' exactly when the flag is set and the
\* counter is below 3, and 'complete' otherwise; (true, 2) gives 'revise',
\* (true, 3) gives 'complete'; and a Decision evaluation that finalizes with
\* needs_revision set records the status 'max_iterations_reached'.
C11_ShouldContinue ==
    /\ [](last_route # "none" /\ entry = "should_continue" =>
            /\ last_route \in {"revise", "complete"}
            /\ (last_route = "revise") <=>
                   (needs_revision /\ iteration_count < 3)
            /\ (needs_revision /\ iteration_count = 2) => last_route = "revise"
            /\ (needs_revision /\ iteration_count = 3) => last_route = "complete")
    /\ [][(call_revision_decision /\ needs_revision /\ last_finalized') =>
              final_output'.status = "max_iterations_reached"]_vars

C11_Witness ==
    /\ entry = "should_continue"
    /\ needs_revision
    /\ iteration_count = 3
    /\ last_route = "complete"

\* C12: the final-output record is empty until the finalizing Decision
\* evaluation, that evaluation is the only step that writes it and it writes
\* it once, and once it is written no stage runs and it is not written again.
C12_FinalOutputOnce ==
    /\ [](/\ final_writes <= 1
          /\ (final_writes = 0) <=> (final_output = EmptyDict)
          /\ final_writes = 1 => (last_finalized /\ node = "END"))
    /\ [][final_output' # final_output =>
              (revision_decision /\ last_finalized' /\ final_output = EmptyDict)]_vars
    /\ [][final_output # EmptyDict =>
              (node_runs' = node_runs /\ final_output' = final_output)]_vars

C12_Witness ==
    /\ WorkflowDone
    /\ final_writes = 1
    /\ final_output # EmptyDict
    /\ node_runs["revision_decision"] = 2
    /\ node_runs["coding_agent"] = 2

\* The order of the stages: the entry point, the chain of stages, the
\* back-edge from Decision to Coding and the edge from Decision to END.
StageEdges ==
    { <<"idle", "planning_agent">>, <<"planning_agent", "coding_agent">>,
      <<"coding_agent", "testing_agent">>, <<"testing_agent", "reviewing_agent">>,
      <<"reviewing_agent", "revision_decision">>,
      <<"revision_decision", "coding_agent">>, <<"revision_decision", "END">> }

\* C22: the stages run in the order Planning, Coding, Testing, Reviewing,
\* Decision: Planning runs once, in every pass Coding, Testing, Reviewing and
\* Decision run once each in that order, the only back-edge is Decision to
\* Coding, and at END the four have run the same number of times.
C22_StageOrder ==
    /\ [](entry = "run" =>
            LET p == node_runs["planning_agent"]
                c == node_runs["coding_agent"]
                t == node_runs["testing_agent"]
                r == node_runs["reviewing_agent"]
                d == node_runs["revision_decision"]
            IN /\ p = (IF node \in {"idle", "planning_agent"} THEN 0 ELSE 1)
               /\ node \in {"idle", "planning_agent"} =>
                      c = 0 /\ t = 0 /\ r = 0 /\ d = 0
               /\ node = "coding_agent" => c = d /\ t = d /\ r = d
               /\ node = "testing_agent" => c = d + 1 /\ t = d /\ r = d
               /\ node = "reviewing_agent" => c = d + 1 /\ t = d + 1 /\ r = d
               /\ node = "revision_decision" =>
                      c = d + 1 /\ t = d + 1 /\ r = d + 1
               /\ node = "END" => c = d /\ t = d /\ r = d /\ d >= 1)
    /\ [][node' # node => <<node, node'>> \in StageEdges]_vars

C22_Witness ==
    /\ WorkflowDone
    /\ node_runs["planning_agent"] = 1
    /\ node_runs["coding_agent"] = 3
    /\ node_runs["testing_agent"] = 3
    /\ node_runs["reviewing_agent"] = 3
    /\ node_runs["revision_decision"] = 3

\* C23: a Coding pass carries the previous code and the review as feedback
\* context exactly when it is entered through the back-edge from Decision;
\* the review it carries is the one of the pass before, which asked for a
\* revision; the first Coding pass carries no feedback context.
C23_FeedbackOnBackEdge ==
    /\ [][coding_agent =>
              /\ (coder_context' # EmptyDict) <=> (last_route = "revise")
              /\ (node_runs["coding_agent"] = 0) => coder_context' = EmptyDict
              /\ (last_route = "revise") =>
                     /\ NeedsRevisionFlag(review)
                     /\ coder_context'.feedback = review
                     /\ coder_context'.previous_code = code]_vars
    /\ []((entry = "run" /\ node = "coding_agent") =>
             (last_route = "revise") <=> (node_runs["revision_decision"] > 0))

C23_Witness ==
    /\ entry = "run"
    /\ node = "testing_agent"
    /\ node_runs["coding_agent"] = 2
    /\ coder_context # EmptyDict
    /\ coder_context.feedback = review

\* C29: the iterations field of the final-output record is the number of
\* Coding passes of the run and is 1, 2 or 3, and the iteration counter
\* changes only in the Decision stage, by one per evaluation.
C29_IterationsCountPasses ==
    /\ []((entry = "run" /\ final_output # EmptyDict) =>
             /\ final_output.iterations = node_runs["coding_agent"]
             /\ final_output.iterations \in 1..3)
    /\ [][iteration_count' # iteration_count =>
              (revision_decision /\ iteration_count' = iteration_count + 1)]_vars

C29_Witness ==
    /\ WorkflowDone
    /\ final_output.iterations = 2
    /\ node_runs["coding_agent"] = 2
    /\ final_output.status = "approved"

\* The first line of a text: what precedes its first newline.
RECURSIVE FirstLine(_)
FirstLine(s) ==
    IF s = <<>> \/ Head(s) = "\n" THEN <<>> ELSE <<Head(s)>> \o FirstLine(Tail(s))

\* The Reviewing stage has just run.
Reviewed == entry = "run" /\ node = "revision_decision"

\* C13 as stated: the Reviewing stage sets needs_revision exactly when the
\* first line of the review, trimmed and case-normalized, equals the marker
\* NEEDS_REVISION; a first line that starts with the marker and goes on, and
\* any other first line, leave the flag false.
C13_FlagIffFirstLineIsMarker ==
    Reviewed => (needs_revision <=> (Upper(Strip(FirstLine(review))) = Marker))

\* C13, amended: the Reviewing stage sets needs_revision exactly when the
\* review, stripped of surrounding whitespace and upper-cased, starts with the
\* marker: its first non-blank line starts with NEEDS_REVISION, whatever
\* follows the marker on that line.
C13_FlagIffReviewStartsWithMarker ==
    Reviewed =>
        (needs_revision <=> StartsWith(Upper(FirstLine(Strip(review))), Marker))

C13_Witness ==
    /\ Reviewed
    /\ review = <<"NEEDS_REVISION", "x">>
    /\ needs_revision

\* A project holding the text t is materialized on disk.
Materialized(t) == disk.code = t /\ (disk.sln \/ disk.py_files > 0)

\* C14: each Coding pass is followed, before the Testing stage starts, by the
\* materialization of the generated code into a project on disk: when Testing
\* is about to run, the project on disk holds the code the Coding pass wrote.
C14_CodingMaterializes ==
    (entry = "run" /\ node = "testing_agent") => Materialized(code)

---------------------------------------------------------------------------
(* Properties of the Extractor *)

\* The Extractor has cleaned a text and then cleaned its own output.
CleanedTwice == entry = "clean" /\ cl.calls = 2

\* C15: extraction is idempotent: for every text and every language hint,
\* cleaning the cleaned text again returns the text the first cleaning
\* returned; the import-prepending step adds nothing on the second pass.
C15_CleanIdempotent ==
    CleanedTwice =>
        cl.outs[2].data[1].cleaned_code = cl.outs[1].data[1].cleaned_code

---------------------------------------------------------------------------
(* Properties of the Splitter *)

\* The Splitter has split a text.
SplitDone == entry = "split" /\ sp.called /\ sp.out.success

\* The markers of the language the text was split as.
MarkersOf(language) ==
    IF language = "csharp" THEN CsMarkers
    ELSE IF language = "python" THEN PyMarkers
    ELSE {}

MarkerPositions(s, M) == {i \in 1..Len(s) : s[i] \in M}

\* The text between the marker at i and the next marker or the end of s.
TextAfterMarker(s, i, M) ==
    LET later == {j \in MarkerPositions(s, M) : j > i}
        e == IF later = {} THEN Len(s)
             ELSE (CHOOSE j \in later : \A k \in later : j <= k) - 1
    IN SubSeq(s, i + 1, e)

FileSet(files) == {files[k] : k \in 1..Len(files)}

\* C16: a blob that holds k distinct file markers, wherever they stand (the
\* last line included), is split into exactly k entries, keyed by the names
\* the markers declare, each holding the text between its marker and the next
\* marker or the end of the blob.
C16_OneFilePerMarker ==
    SplitDone =>
        LET s == sp.code[1]
            M == MarkersOf(sp.out.data[1].language)
            P == MarkerPositions(s, M)
            files == sp.out.data[1].files
        IN (P # {} /\ \A i, j \in P : s[i] = s[j] => i = j) =>
              /\ Len(files) = Cardinality(P)
              /\ FileSet(files) =
                     {[name |-> MarkerName(s[i]),
                       content |-> Strip(TextAfterMarker(s, i, M))] : i \in P}

\* The brace depth of s before token i, and after its last token.
Depth(s, i) ==
    Cardinality({p \in 1..(i - 1) : s[p] = "{"})
    - Cardinality({p \in 1..(i - 1) : s[p] = "}"})

Balanced(s) ==
    /\ \A i \in 1..(Len(s) + 1) : Depth(s, i) >= 0
    /\ Depth(s, Len(s) + 1) = 0

\* The classes declared at depth 0, and where the declaration at i ends: at
\* the brace that closes it.
TopLevelClasses(s) == {i \in 1..Len(s) : s[i] \in ClassToks /\ Depth(s, i) = 0}

DeclEnd(s, i) ==
    LET closes == {j \in i..Len(s) : s[j] = "}" /\ Depth(s, j + 1) = Depth(s, i)}
    IN IF closes = {} THEN Len(s)
       ELSE CHOOSE j \in closes : \A k \in closes : j <= k

\* C17: a blob with no file markers, balanced braces and exactly 2 classes
\* declared at the top level is split into exactly 2 files, one per class,
\* each holding the span of its declaration (so the spans do not overlap).
C17_TwoClassesTwoFiles ==
    SplitDone =>
        LET s == sp.code[1]
            T == TopLevelClasses(s)
            files == sp.out.data[1].files
        IN (/\ sp.out.data[1].language = "csharp"
            /\ MarkerPositions(s, CsMarkers) = {}
            /\ Balanced(s)
            /\ Cardinality(T) = 2) =>
              /\ Len(files) = 2
              /\ FileSet(files) =
                     {[name |-> ClassFile(s[i]),
                       content |-> SubSeq(s, i, DeclEnd(s, i))] : i \in T}

\* Opening minus closing braces among the tokens a..b of s.
BraceBalance(s, a, b) ==
    Cardinality({k \in a..b : s[k] = "{"})
    - Cardinality({k \in a..b : s[k] = "}"})

\* Where the unit of the class declared at i ends: at the closing brace that
\* brings the depth, counted from the first opening brace after i, back to
\* zero; at the end of the text when there is no such brace.
UnitEnd(s, i) ==
    LET opens == {o \in i..Len(s) : s[o] = "{"}
    IN IF opens = {} THEN Len(s)
       ELSE LET o == CHOOSE a \in opens : \A b \in opens : a <= b
                closes == {j \in o..Len(s) : BraceBalance(s, o, j) = 0}
            IN IF closes = {} THEN Len(s)
               ELSE CHOOSE a \in closes : \A b \in closes : a <= b

\* C26: with no file markers and one class declaration, the file of the class
\* ends at the closing brace that returns the depth to zero, the depth being
\* counted from the declaration's first opening brace, whatever closing
\* braces come between the declaration and that opening brace, and at the
\* end of the text when no matching closing brace exists.
C26_UnitEndsAtMatchingBrace ==
    SplitDone =>
        LET s == sp.code[1]
            C == {i \in 1..Len(s) : s[i] \in ClassToks}
        IN (/\ sp.out.data[1].language = "csharp"
            /\ MarkerPositions(s, CsMarkers) = {}
            /\ Cardinality(C) = 1) =>
              LET i == CHOOSE c \in C : TRUE
              IN sp.out.data[1].files =
                     << [name |-> ClassFile(s[i]),
                         content |-> Strip(SubSeq(s, i, UnitEnd(s, i)))] >>

---------------------------------------------------------------------------
(* Properties of the Assemblers *)

GenDone(tool) == gen.called /\ gen.tool = tool

\* The content of the file at path, None if there is no such file.
FileAt(fs, path) ==
    LET S == {i \in 1..Len(fs.files) : fs.files[i].name = path}
    IN IF S = {} THEN None ELSE Some(fs.files[CHOOSE i \in S : TRUE].content)

Range(s) == {s[i] : i \in 1..Len(s)}

\* The C# call was given a project directory and code that makes one main
\* file and one test file.
OneMainOneTest ==
    /\ GenDone("csharp")
    /\ gen.project_dir # None
    /\ Len(CsFiles[gen.code]) = 1
    /\ Len(CsTestFiles[gen.code, gen.test_code]) = 1

\* C18: a C# assembly with one main file and one test file in which no
\* operation fails returns exactly 7 paths (the solution, the main manifest,
\* the test manifest, the source file, the test file, the ignore file and the
\* readme), and the project reference in the test manifest names the main
\* project's directory and its manifest.
C18_SevenPaths ==
    (OneMainOneTest /\ ~gen.body.raised) =>
        LET r == gen.out.result
            d == r.data[1]
            pd == gen.project_dir[1]
            manifest == Append(d.main_dir, CsprojName(d.project_name))
            test_manifest == Append(d.test_dir, TestCsprojName(d.project_name))
            written == FileAt(gen.out.fs, test_manifest)
        IN /\ r.success
           /\ Len(r.files_created) = 7
           /\ Range(r.files_created) =
                  { <<pd, SlnName(d.project_name)>>, manifest, test_manifest,
                    Append(d.main_dir, CsFiles[gen.code][1].name),
                    Append(d.test_dir,
                           CsTestFiles[gen.code, gen.test_code][1].name),
                    <<pd, ".gitignore">>, <<pd, "README.md">> }
           /\ written # None
           /\ \E i \in 1..Len(written[1]) :
                  /\ written[1][i] = "<ProjectReference>"
                  /\ SubSeq(written[1], i + 1, Len(written[1])) =
                         << "..", d.main_dir[Len(d.main_dir)],
                            manifest[Len(manifest)] >>

C18_Witness ==
    /\ OneMainOneTest
    /\ ~gen.body.raised
    /\ gen.project_name = None
    /\ gen.fs0 = OldFs

\* The latest write of the completed operations to each path.
LatestWrites(done) ==
    {i \in 1..Len(done) :
        /\ done[i].kind = "write"
        /\ \A j \in (i + 1)..Len(done) : done[j].name # done[i].name}

\* C19: when an operation of an assembly fails or the project directory is
\* missing, in either generator, the call does not raise: it returns a result
\* with success false whose message ends with the text of the exception, and
\* every file written before the error, like every file that was there before
\* the call, is still in place.
C19_AssemblerNeverRaises ==
    (gen.called /\ gen.body.raised) =>
        LET r == gen.out.result
        IN /\ ~gen.out.raised
           /\ ~r.success
           /\ r.message # <<>>
           /\ r.message[Len(r.message)] = gen.body.text
           /\ r.files_created = <<>>
           /\ \A i \in LatestWrites(gen.body.done) :
                  FileAt(gen.out.fs, gen.body.done[i].name) =
                      Some(gen.body.done[i].content)
           /\ \A i \in 1..Len(gen.fs0.files) :
                  FileAt(gen.out.fs, gen.fs0.files[i].name) # None

C19_Witness ==
    /\ GenDone("python")
    /\ gen.body.raised
    /\ gen.body.exc = "OSError"
    /\ LatestWrites(gen.body.done) # {}
    /\ gen.fs0 = OldFs

\* The units a completed call handed to the file writes: the directory each
\* goes to, its final file name and its content.
GenUnits ==
    LET d == gen.out.result.data[1]
        main_units == IF gen.tool = "csharp" THEN CsFiles[gen.code]
                      ELSE PyFiles[gen.code]
        test_units == IF gen.tool = "csharp"
                      THEN CsTestFiles[gen.code, gen.test_code]
                      ELSE PyFiles[gen.test_code]
    IN {[path |-> Append(d.main_dir, main_units[i].name),
         content |-> main_units[i].content] : i \in 1..Len(main_units)}
       \cup
       {[path |-> Append(d.test_dir,
                         IF gen.tool = "csharp" THEN test_units[i].name
                         ELSE TestPyName(test_units[i].name)),
         content |-> test_units[i].content] : i \in 1..Len(test_units)}

\* C27: for any main and test inputs, the list of paths an assembly returns
\* holds no path twice and every split unit is in a file of its own in its
\* destination directory; where two units get the same final file name the
\* later write replaces the earlier one, nothing is appended.
C27_PathsUniqueUnitsOwnFile ==
    (gen.called /\ ~gen.body.raised) =>
        LET r == gen.out.result
        IN /\ \A i, j \in 1..Len(r.files_created) :
                  i # j => r.files_created[i] # r.files_created[j]
           /\ \A u \in GenUnits : FileAt(gen.out.fs, u.path) = Some(u.content)
           /\ \A i \in LatestWrites(gen.body.done) :
                  FileAt(gen.out.fs, gen.body.done[i].name) =
                      Some(gen.body.done[i].content)

\* The paths the completed operations of the call wrote.
WrittenPaths ==
    {gen.body.done[i].name :
        i \in {k \in 1..Len(gen.body.done) : gen.body.done[k].kind = "write"}}

\* C28: an assembly run on a directory that holds files of an earlier run,
\* whether it completes or stops at a failing operation, replaces exactly the
\* files whose paths it writes: each of them holds what the run wrote last,
\* every other file that was there is still there with its content, and no
\* file appears that was neither there nor written.
C28_RerunOverwritesOnlyWritten ==
    gen.called =>
        /\ \A i \in LatestWrites(gen.body.done) :
               FileAt(gen.out.fs, gen.body.done[i].name) =
                   Some(gen.body.done[i].content)
        /\ \A i \in 1..Len(gen.fs0.files) :
               gen.fs0.files[i].name \notin WrittenPaths =>
                   FileAt(gen.out.fs, gen.fs0.files[i].name) =
                       Some(gen.fs0.files[i].content)
        /\ \A i \in 1..Len(gen.out.fs.files) :
               \/ gen.out.fs.files[i].name \in WrittenPaths
               \/ FileAt(gen.fs0, gen.out.fs.files[i].name) # None

\* A completed run on the directory of an earlier run: the readme is
\* replaced and the file the run does not write is kept.
C28_Witness ==
    /\ gen.called
    /\ gen.fs0 = OldFs
    /\ ~gen.body.raised
    /\ gen.out.result.success
    /\ <<"out/App", "README.md">> \in WrittenPaths
    /\ <<"out/App", "keep.txt">> \notin WrittenPaths
    /\ FileAt(gen.out.fs, <<"out/App", "README.md">>) # Some(<<"old">>)
    /\ FileAt(gen.out.fs, <<"out/App", "keep.txt">>) = Some(<<"old">>)

---------------------------------------------------------------------------
(* Properties of the tool registry *)

\* C20: in every interleaving of the threads' ToolRegistry() / get_registry()
\* calls and register calls, all callers are returned the same registry, and
\* every lookup of a tool whose register call has returned finds the tool.
C20_RegistrySafe ==
    /\ Cardinality(reg.obtained) <= 1
    /\ \A l \in reg.lookups : l.found

\* C21: ToolRegistry.execute raises KeyError when no tool is registered under
\* the name, and otherwise returns what that tool's execute returned.
C21_ExecuteRaisesKeyError ==
    reg.exec.called =>
        IF reg.exec.name \notin reg.exec.registered
        THEN reg.exec.out.raised /\ reg.exec.out.exc = "KeyError"
        ELSE reg.exec.out = reg.exec.tool

---------------------------------------------------------------------------
(* Properties of the Build Verifier *)

\* The native tool ran in the latest BuildTool.execute call.
ToolRan ==
    /\ bt.calls > 0
    /\ \/ bt.language = "csharp" /\ disk.sln
       \/ bt.language = "python" /\ disk.py_files > 0

\* Every run of an attempt exited with code 0.
AttemptClean(attempt) ==
    \A f \in 1..Len(attempt) : attempt[f].rc = "exit0"

\* The runs of an attempt all ended, and one of them with a non-zero code.
AttemptFailed(attempt) ==
    /\ \A f \in 1..Len(attempt) : attempt[f].rc \in {"exit0", "exit1"}
    /\ \E f \in 1..Len(attempt) : attempt[f].rc = "exit1"

\* A run that was made found the tool absent or ran into the timeout.
ToolFault ==
    \E i \in 1..bt.out.attempts :
       \E f \in 1..Len(bt.runs[i]) : bt.runs[i][f].rc \in {"timeout", "absent"}

\* C4: BuildTool.execute (csharp or python) returns success=true with an
\* empty diagnostics list only if the native tool exited cleanly in the last
\* attempt, and when every attempt reported a failure the result has
\* success=false and carries the diagnostics.
C4_BuildContract ==
    (ToolRan /\ ~bt.out.raised) =>
        /\ bt.out.result.success =>
              /\ bt.out.attempts >= 1
              /\ AttemptClean(bt.runs[bt.out.attempts])
              /\ bt.out.result.data[1].errors = <<>>
        /\ (/\ bt.out.attempts = bt.budget
            /\ \A i \in 1..bt.budget : AttemptFailed(bt.runs[i])) =>
              /\ ~bt.out.result.success
              /\ bt.out.result.data # None
              /\ bt.out.result.data[1].errors = bt.out.all_errors

\* C8: when the native tool is absent or exceeds its timeout, BuildTool.execute
\* does not raise: it returns a ToolResult with success=false.
C8_NoRaiseOnToolFault ==
    (bt.calls > 0 /\ ToolFault) =>
        /\ ~bt.out.raised
        /\ ~bt.out.result.success

\* C9: whenever a BuildTool.execute call returns success=false with
\* diagnostics, those diagnostics are in metadata['build_errors'] when it
\* returns, for every iteration budget including 1.
C9_DiagnosticsMirrored ==
    (/\ bt.calls > 0
     /\ ~bt.out.raised
     /\ ~bt.out.result.success
     /\ bt.out.result.data # None) =>
        /\ "build_errors" \in DOMAIN metadata
        /\ metadata["build_errors"] = bt.out.last_errors

---------------------------------------------------------------------------
(* Properties of the Repair Loop *)

LoopEnded == rl.pc \in {"returned", "raised"}
LoopRunning == rl.pc \in {"build", "fix", "retry"}

Kinds == [i \in 1..Len(rl.builds) |-> rl.builds[i].kind]

\* Every Build Verifier invocation so far returned a failure with diagnostics.
AllBuildsFailed ==
    /\ rl.builds # <<>>
    /\ \A i \in 1..Len(rl.builds) : rl.builds[i].kind = "fail"

\* C3: the Build Verifier invocation of iteration i+1 checks the code returned
\* by the fix of iteration i: the code in the project's files at each build
\* after the first is the loop's current_code.
C3_NextBuildSeesFix ==
    \A i \in 1..Len(rl.builds) :
       rl.builds[i].iteration > 1 => rl.builds[i].built = rl.builds[i].current

\* C5: for N >= 1 the Repair Loop makes at most N Build Verifier invocations
\* and ends by returning, with the success flag of the last Build Verifier
\* result.
C5_LoopReturns ==
    rl.N >= 1 =>
        /\ Len(rl.builds) <= rl.N
        /\ LoopEnded =>
              /\ rl.pc = "returned"
              /\ rl.ret[1][1] = (rl.builds[Len(rl.builds)].kind = "ok")

\* C6 as stated: with a Build Verifier that fails on every invocation the
\* loop ends after exactly N calls to fix() and reports success=false.
C6_NFixCalls ==
    (rl.N >= 1 /\ rl.pc = "returned" /\ AllBuildsFailed) =>
        /\ rl.fix_calls = rl.N
        /\ rl.ret[1][1] = FALSE

\* C6 amended: with a Build Verifier that on every invocation returns a
\* failure carrying diagnostics, the loop returns success=false right after
\* the Nth build, having made N-1 fix rounds, each of 1 or 2 fix calls; no fix
\* follows the Nth failed build.
C6_FixRoundsOnAllFail ==
    (rl.N >= 1 /\ AllBuildsFailed) =>
        /\ Len(rl.builds) <= rl.N
        /\ (Len(rl.builds) = rl.N) <=> (rl.pc = "returned")
        /\ (Len(rl.builds) < rl.N) => LoopRunning
        /\ rl.fix_rounds \in {Len(rl.builds) - 1, Len(rl.builds)}
        /\ rl.pc = "returned" =>
              /\ rl.ret[1][1] = FALSE
              /\ rl.fix_rounds = rl.N - 1
              /\ rl.fix_calls >= rl.N - 1
              /\ rl.fix_calls <= 2 * (rl.N - 1)

C6_Witness ==
    /\ rl.N = 3
    /\ rl.pc = "returned"
    /\ AllBuildsFailed
    /\ rl.fix_rounds = 2
    /\ rl.fix_calls = 3
    /\ rl.ret[1][1] = FALSE

\* C7 as stated: with a Build Verifier that fails twice and then succeeds and
\* N >= 3, the loop ends after exactly 2 calls to fix() and reports
\* success=true, whatever the fix calls return.
C7_TwoFixCalls ==
    (rl.N >= 3 /\ rl.pc = "returned" /\ Kinds = <<"fail", "fail", "ok">>) =>
        /\ rl.fix_calls = 2
        /\ rl.ret[1][1] = TRUE

\* C7 amended: with a Build Verifier whose first two invocations return a
\* failure carrying diagnostics and whose third succeeds, and N >= 3, the loop
\* goes on after the second failure and returns success=true after the third
\* build, having made exactly 2 fix rounds, that is 2 to 4 fix calls: a round
\* repeats its call once when the first reply is empty or equals current_code.
C7_TwoFixRounds ==
    /\ (rl.N >= 3 /\ Kinds = <<"fail", "fail">>) =>
          /\ LoopRunning
          /\ rl.fix_rounds \in {1, 2}
    /\ (rl.N >= 3 /\ Kinds = <<"fail", "fail", "ok">>) =>
          /\ rl.pc = "returned"
          /\ rl.ret[1][1] = TRUE
          /\ rl.ret[1][2] = rl.current_code
          /\ rl.fix_rounds = 2
          /\ rl.fix_calls \in 2..4

C7_Witness ==
    /\ rl.N >= 3
    /\ Kinds = <<"fail", "fail", "ok">>
    /\ rl.pc = "returned"
    /\ rl.ret[1][1] = TRUE
    /\ rl.fix_calls = 4

\* The latest Build Verifier invocation of the loop.
LastBuild == rl.builds[Len(rl.builds)]

\* What both readings of C24 say of a fix round: it makes one or two fix
\* calls; after a first reply that is empty or equal to current_code comes one
\* retry, whose reply becomes current_code even if it is still unchanged; a
\* round that was not retried had a first reply that is not empty and differs
\* from the code it was asked to fix.
FixRounds ==
    /\ rl.round_calls <= 2
    /\ rl.fix_calls <= 2 * rl.fix_rounds
    /\ rl.pc = "retry" =>
           /\ rl.round_calls = 1
           /\ rl.fixed_code = EmptyText \/ rl.fixed_code = rl.current_code
           /\ rl.current_code = LastBuild.current
    /\ (rl.pc = "build" /\ rl.builds # <<>>) =>
           /\ rl.round_calls \in {1, 2}
           /\ rl.current_code = rl.fixed_code
           /\ rl.round_calls = 1 =>
                  /\ rl.fixed_code # EmptyText
                  /\ rl.fixed_code # LastBuild.current

\* C24 as stated: the fix rounds are as above, and every iteration with a
\* failed build advances the iteration counter by one.
C24_RetryOnceAndAdvance ==
    /\ FixRounds
    /\ (rl.builds # <<>> /\ rl.pc \in {"build", "returned", "raised"}
          /\ LastBuild.kind \in {"fail", "fail_nodata"}) =>
           rl.iteration = LastBuild.iteration + 1

\* C24, amended: the fix rounds are as above, and every iteration in which a
\* fix call is made advances the iteration counter by exactly one before the
\* next build; an iteration whose failed build ends the loop does not.
C24_RetryOnceAndAdvanceAfterFix ==
    /\ FixRounds
    /\ (rl.pc = "build" /\ rl.builds # <<>>) =>
           /\ LastBuild.kind = "fail"
           /\ rl.iteration = LastBuild.iteration + 1
           /\ rl.fix_rounds = LastBuild.iteration
    /\ rl.pc \in {"fix", "retry"} =>
           /\ LastBuild.kind = "fail"
           /\ rl.iteration = LastBuild.iteration
    /\ (LoopEnded /\ rl.builds # <<>>) => rl.iteration = LastBuild.iteration

C24_Witness ==
    /\ rl.pc = "build"
    /\ rl.iteration = 2
    /\ rl.round_calls = 2
    /\ rl.fix_calls = 2
    /\ rl.current_code = LastBuild.current

\* C25: when the Build Verifier fails without a diagnostics payload (no
\* solution file in the project directory, or an unsupported language), the
\* Repair Loop does not raise: it returns (false, code, failure result).
C25_NoPayloadFailureReturned ==
    (LoopEnded /\ rl.builds # <<>> /\ LastBuild.kind = "fail_nodata") =>
        /\ rl.pc = "returned"
        /\ rl.ret # None
        /\ rl.ret[1][1] = FALSE
        /\ rl.ret[1][2] = rl.current_code
        /\ rl.ret[1][3] = bt.out.result

\* C30: with the maximum configured as 0, build_and_fix makes no Build
\* Verifier call and no fix call and returns success=false with the caller's
\* original code, rather than raising.
C30_ZeroIterationsReturns ==
    (entry = "build_and_fix" /\ rl.pc # "idle" /\ rl.N = 0) =>
        /\ rl.builds = <<>>
        /\ rl.fix_calls = 0
        /\ rl.pc = "returned"
        /\ rl.ret # None
        /\ rl.ret[1][1] = FALSE
        /\ rl.ret[1][2] = rl.code

====
